---------------------------- MODULE Spec2Model ----------------------------
(***************************************************************************)
(* A model of the SomeIP capture analyser: the capture reader and the      *)
(* bounded channel (pcap_reader.rs, main.rs), the layered frame decoder    *)
(* (link_layer.rs, network_layer.rs, transport_layer.rs, header.rs), the   *)
(* SD learner, the MSI splitter, the TP reassembler, the TCP flow          *)
(* controller and the session manager, driven by process_raw_packet.       *)
(*                                                                         *)
(* Frames are byte sequences; every decoder is an operator over bytes that *)
(* computes what the Rust code computes, including the places where the    *)
(* code aborts (slice index out of range, arithmetic overflow with         *)
(* overflow checks on).                                                    *)
(***************************************************************************)
EXTENDS Integers, Sequences, FiniteSets, TLC

VARIABLES
    overflow_checks,  \* build profile: TRUE = arithmetic overflow aborts (debug)
    target_vlan,      \* cli.vlan: Option<u16>
    capture_family,   \* which frames the capture file holds
    now,              \* Instant::now(), in seconds since start
    produced,         \* history: the RawPackets read from the capture so far
    reader_pc,        \* PCAPReader::start: "read", "send", "done"
    reader_packet,    \* the RawPacket the reader is sending
    channel,          \* mpsc::channel buffer
    rx_dropped,       \* packet_rx has been dropped
    main_pc,          \* main: "loop", "sweep", "export", "done", "failed", "panicked"
    handed,           \* history: the RawPackets passed to process_raw_packet
    known_ports,      \* HashSet<u16>
    session_manager,  \* SessionManager
    tp_parser,        \* TPParser
    tcp_flow,         \* TcpFlowController
    messages,         \* Vec<SomeIPMessage>: the output buffer
    swept,            \* cleanup_expired_sessions has run at the end of input
    exported,         \* what Exporter::export was given
    result,           \* what the last call of a component returned
    calls             \* history: the arguments of the calls made on a component

vars == <<overflow_checks, target_vlan, capture_family, now, produced, reader_pc, reader_packet, channel,
          rx_dropped, main_pc, handed, known_ports, session_manager,
          tp_parser, tcp_flow, messages, swept, exported, result, calls>>

---------------------------------------------------------------------------
(* Bounds of the model.  The capacities and timeouts are parameters of the *)
(* program (main.rs:53-63); they are scaled down here.                     *)

MaxFrames == 3          \* frames in the capture file
MaxTime == 2            \* the clock stops advancing here
ChannelCapacity == 2    \* mpsc::channel(1000)
MaxPairs == 2           \* SessionManager::new(_, 10000)
MaxConnections == 2     \* TcpFlowController::new(100, _, _)
RequestTimeout == 1     \* cli.request_timeout
TpTimeout == 1          \* cli.tp_timeout
SegmentTimeout == 1     \* Duration::from_secs(30)
ConnectionTimeout == 1  \* cli.tcp_timeout

(* Program constants. *)
SdPort == 30490

---------------------------------------------------------------------------
(* Bytes and slices.  Offsets are 0-based as in the Rust code.             *)

Byte == 0..255

Take(s, n) == SubSeq(s, 1, n)
Drop(s, n) == SubSeq(s, n + 1, Len(s))
Slice(s, from, to) == SubSeq(s, from + 1, to)
At(s, i) == s[i + 1]

be_u8(s) == s[1]
be_u16(s) == s[1] * 256 + s[2]
be_u24(s) == s[1] * 65536 + s[2] * 256 + s[3]
be_u32(s) == s[1] * 16777216 + s[2] * 65536 + s[3] * 256 + s[4]

\* (x & (1 << bit)) != 0
Bit(x, bit) == (x \div (2 ^ bit)) % 2 = 1

Min(a, b) == IF a < b THEN a ELSE b

RECURSIVE SeqToSet(_)
SeqToSet(s) == IF s = <<>> THEN {} ELSE {Head(s)} \cup SeqToSet(Tail(s))

---------------------------------------------------------------------------
(* Link layer: link_layer.rs                                               *)

ParseErr == [ok |-> FALSE, panic |-> FALSE]
ParsePanic == [ok |-> FALSE, panic |-> TRUE]

parse_sll(input) ==
    IF Len(input) < 6 THEN ParseErr
    ELSE LET link_layer_addr_len == be_u16(Drop(input, 4)) IN
         IF Len(input) < 6 + link_layer_addr_len + 2 THEN ParseErr
         ELSE [ok |-> TRUE, panic |-> FALSE, kind |-> "SLL",
               has_vlan |-> FALSE, tci |-> 0,
               ethertype |-> be_u16(Drop(input, 6 + link_layer_addr_len)),
               payload |-> Drop(input, 8 + link_layer_addr_len)]

IsVlanEthertype(ethertype) == ethertype \in {33024, 34984, 37120}

parse_ethernet(input) ==
    IF Len(input) < 14 THEN ParseErr
    ELSE LET ethertype == be_u16(Drop(input, 12)) IN
         IF IsVlanEthertype(ethertype)
         THEN IF Len(input) < 18 THEN ParseErr
              ELSE [ok |-> TRUE, panic |-> FALSE, kind |-> "Ethernet",
                    has_vlan |-> TRUE, tci |-> be_u16(Drop(input, 14)),
                    ethertype |-> be_u16(Drop(input, 16)),
                    payload |-> Drop(input, 18)]
         ELSE [ok |-> TRUE, panic |-> FALSE, kind |-> "Ethernet",
               has_vlan |-> FALSE, tci |-> 0,
               ethertype |-> ethertype,
               payload |-> Drop(input, 14)]

parse_link_layer(input) ==
    IF Len(input) >= 16 /\ Take(input, 2) = <<0, 0>>
    THEN parse_sll(input)
    ELSE parse_ethernet(input)

---------------------------------------------------------------------------
(* Network layer: network_layer.rs                                         *)

parse_ipv4(input) ==
    IF Len(input) < 20 THEN ParseErr
    ELSE LET ihl == be_u8(input) % 16
             total_length == be_u16(Drop(input, 2))
             rest == Drop(input, 20)
             payload_start == ihl * 4
         IN  \* &input[..(total_length as usize - payload_start)]
             IF total_length < payload_start THEN ParsePanic
             ELSE IF total_length - payload_start > Len(rest) THEN ParsePanic
             ELSE [ok |-> TRUE, panic |-> FALSE, kind |-> "IPv4",
                   protocol |-> At(input, 9),
                   src_ip |-> Slice(input, 12, 16),
                   dst_ip |-> Slice(input, 16, 20),
                   payload |-> Take(rest, total_length - payload_start)]

parse_ipv6(input) ==
    IF Len(input) < 40 THEN ParseErr
    ELSE [ok |-> TRUE, panic |-> FALSE, kind |-> "IPv6",
          protocol |-> At(input, 6),
          src_ip |-> Slice(input, 8, 24),
          dst_ip |-> Slice(input, 24, 40),
          payload |-> Drop(input, 40)]

parse_network_layer(input, ethertype) ==
    CASE ethertype = 2048 -> parse_ipv4(input)
      [] ethertype = 34525 -> parse_ipv6(input)
      [] OTHER -> ParseErr

---------------------------------------------------------------------------
(* Transport layer: transport_layer.rs                                     *)

parse_udp(input) ==
    IF Len(input) < 8 THEN ParseErr
    ELSE [ok |-> TRUE, panic |-> FALSE, kind |-> "UDP",
          src_port |-> be_u16(input),
          dst_port |-> be_u16(Drop(input, 2)),
          payload |-> Drop(input, 8)]

\* The flags of parse_tcp: rst, syn and fin are taken with the mask 0x0000.
TcpFlagMask(flag) ==
    CASE flag = "ns" -> 32
      [] flag = "cwr" -> 16
      [] flag = "ece" -> 8
      [] flag = "urg" -> 4
      [] flag = "ack" -> 2
      [] flag = "psh" -> 1
      [] flag = "rst" -> 0
      [] flag = "syn" -> 0
      [] flag = "fin" -> 0

\* (word & mask) != 0 for a mask that is zero or one bit
MaskTest(word, mask) == mask # 0 /\ (word \div mask) % 2 = 1

TcpFlagNames == {"ns", "cwr", "ece", "urg", "ack", "psh", "rst", "syn", "fin"}

parse_tcp_flags(word) == [f \in TcpFlagNames |-> MaskTest(word, TcpFlagMask(f))]

parse_tcp(input, checks) ==
    IF Len(input) < 14 THEN ParseErr
    ELSE LET word == be_u16(Drop(input, 12))
             data_offset == (word \div 4096) % 16
             \* (data_offset * 4 - 20) as usize, computed in u8
             options_size == (data_offset * 4 - 20) % 256
         IN  IF Len(input) < 20 THEN ParseErr
             ELSE IF data_offset * 4 < 20 /\ checks THEN ParsePanic
             ELSE IF Len(input) < 20 + options_size THEN ParseErr
             ELSE [ok |-> TRUE, panic |-> FALSE, kind |-> "TCP",
                   src_port |-> be_u16(input),
                   dst_port |-> be_u16(Drop(input, 2)),
                   seq_num |-> be_u32(Drop(input, 4)),
                   window_size |-> be_u16(Drop(input, 14)),
                   flags |-> parse_tcp_flags(word),
                   payload |-> Drop(input, 20 + options_size)]

parse_transport_layer(input, protocol, checks) ==
    CASE protocol = 17 -> parse_udp(input)
      [] protocol = 6 -> parse_tcp(input, checks)
      [] OTHER -> ParseErr

---------------------------------------------------------------------------
(* SomeIP header: header.rs                                                *)

MessageTypeName(value) ==
    CASE value = 0 -> "Request"
      [] value = 1 -> "RequestNoReturn"
      [] value = 2 -> "Notification"
      [] value = 64 -> "RequestACK"
      [] value = 65 -> "RequestNoReturnACK"
      [] value = 66 -> "NotificationACK"
      [] value = 128 -> "Response"
      [] value = 129 -> "Error"
      [] value = 192 -> "ResponseACK"
      [] value = 193 -> "ErrorACK"
      [] OTHER -> "Unknown"

\* MessageType: the variant and the byte as_u8 gives back
parse_message_type(value) == [variant |-> MessageTypeName(value), value |-> value]

as_u8(message_type) == message_type.value

parse_return_code(value) ==
    CASE value = 0 -> "Ok"
      [] value = 1 -> "NotOk"
      [] value = 2 -> "UnknownService"
      [] value = 3 -> "UnknownMethod"
      [] value = 4 -> "NotReady"
      [] value = 5 -> "NotReachable"
      [] value = 6 -> "Timeout"
      [] value = 7 -> "WrongProtocolVersion"
      [] value = 8 -> "WrongInterfaceVersion"
      [] value = 9 -> "MalformedMessage"
      [] value = 10 -> "WrongMessageType"
      [] OTHER -> "Unknown"

parse_someip_header(input) ==
    IF Len(input) < 16 THEN ParseErr
    ELSE [ok |-> TRUE, panic |-> FALSE,
          header |-> [service_id |-> be_u16(input),
                      method_id |-> be_u16(Drop(input, 2)),
                      length |-> be_u32(Drop(input, 4)),
                      client_id |-> be_u16(Drop(input, 8)),
                      session_id |-> be_u16(Drop(input, 10)),
                      protocol_version |-> At(input, 12),
                      interface_version |-> At(input, 13),
                      message_type |-> parse_message_type(At(input, 14)),
                      return_code |-> parse_return_code(At(input, 15))]]

---------------------------------------------------------------------------
(* SD packets: sd_parser.rs                                                *)

TransportProtocol(protocol) ==
    CASE protocol = 6 -> "TCP"
      [] protocol = 17 -> "UDP"
      [] OTHER -> "Unknown"

\* One entry: the 12 common bytes, then a tail that depends on the type.
SdEntryKind(entry_type) ==
    CASE entry_type = 0 -> "FindService"
      [] entry_type = 1 -> "OfferService"
      [] entry_type = 6 -> "SubscribeEventgroup"
      [] entry_type = 7 -> "SubscribeEventgroupAck"
      [] OTHER -> "Unknown"

\* bytes one entry consumes: be_u32 | (be_u16, be_u16) | that and be_u8 | take(8)
SdEntrySize(entry_type) ==
    CASE entry_type \in {0, 1, 6} -> 16
      [] entry_type = 7 -> 17
      [] OTHER -> 20

parse_sd_entry(input) ==
    IF Len(input) < 12 THEN ParseErr
    ELSE LET entry_type == be_u8(input) IN
         IF Len(input) < SdEntrySize(entry_type) THEN ParseErr
         ELSE [ok |-> TRUE, panic |-> FALSE,
               rest |-> Drop(input, SdEntrySize(entry_type)),
               entry |-> [kind |-> SdEntryKind(entry_type),
                          entry_type |-> entry_type,
                          first_options_index |-> At(input, 1),
                          second_options_index |-> At(input, 2),
                          number_of_first_options |-> At(input, 3) % 16,
                          number_of_second_options |-> (At(input, 3) \div 16) % 16,
                          service_id |-> be_u16(Drop(input, 4)),
                          instance_id |-> be_u16(Drop(input, 6)),
                          major_version |-> At(input, 8),
                          ttl |-> be_u24(Drop(input, 9)),
                          tail |-> Slice(input, 12, SdEntrySize(entry_type))]]

\* count(parse_sd_entry, n)
RECURSIVE parse_sd_entries(_, _)
parse_sd_entries(input, n) ==
    IF n = 0 THEN [ok |-> TRUE, panic |-> FALSE, rest |-> input, entries |-> <<>>]
    ELSE LET e == parse_sd_entry(input) IN
         IF ~e.ok THEN ParseErr
         ELSE LET more == parse_sd_entries(e.rest, n - 1) IN
              IF ~more.ok THEN ParseErr
              ELSE [ok |-> TRUE, panic |-> FALSE, rest |-> more.rest,
                    entries |-> <<e.entry>> \o more.entries]

\* many0(parse_configuration_item): stops at the first item that does not parse
RECURSIVE parse_configuration_items(_)
parse_configuration_items(input) ==
    IF Len(input) < 2 THEN <<>>
    ELSE LET length == be_u16(input) IN
         IF length > Len(input) - 2 THEN <<>>
         ELSE <<Slice(input, 2, 2 + length)>>
              \o parse_configuration_items(Drop(input, 2 + length))

parse_configuration_option(input) ==
    [ok |-> TRUE, panic |-> FALSE,
     option |-> [kind |-> "Configuration", port |-> 0,
                 items |-> parse_configuration_items(input)]]

parse_load_balancing_option(input) ==
    IF Len(input) < 5 THEN ParseErr
    ELSE [ok |-> TRUE, panic |-> FALSE,
          option |-> [kind |-> "LoadBalancing", port |-> 0,
                      strategy |-> be_u8(input),
                      priority |-> be_u16(Drop(input, 1)),
                      weight |-> be_u16(Drop(input, 3))]]

\* parse_ipv4_endpoint_option, parse_ipv4_multicast_option,
\* parse_ipv4_sd_endpoint_option (iplen = 4) and the three IPv6 ones (iplen = 16)
parse_endpoint_option(input, kind, iplen) ==
    IF Len(input) < iplen + 3 THEN ParseErr
    ELSE [ok |-> TRUE, panic |-> FALSE,
          option |-> [kind |-> kind,
                      ip_address |-> Take(input, iplen),
                      transport_protocol |-> TransportProtocol(At(input, iplen)),
                      port |-> be_u16(Drop(input, iplen + 1))]]

parse_sd_option(option_type, option_data) ==
    CASE option_type = 1 -> parse_configuration_option(option_data)
      [] option_type = 2 -> parse_load_balancing_option(option_data)
      [] option_type = 4 -> parse_endpoint_option(option_data, "Ipv4Endpoint", 4)
      [] option_type = 6 -> parse_endpoint_option(option_data, "Ipv6Endpoint", 16)
      [] option_type = 20 -> parse_endpoint_option(option_data, "Ipv4Multicast", 4)
      [] option_type = 22 -> parse_endpoint_option(option_data, "Ipv6Multicast", 16)
      [] option_type = 36 -> parse_endpoint_option(option_data, "Ipv4SDEndpoint", 4)
      [] option_type = 38 -> parse_endpoint_option(option_data, "Ipv6SDEndpoint", 16)
      [] OTHER -> [ok |-> TRUE, panic |-> FALSE,
                   option |-> [kind |-> "Unknown", port |-> 0,
                               option_type |-> option_type, data |-> option_data]]

\* bytes of the option array one option takes: the u16 read at its start
SdOptionAdvance(option_length) == option_length

\* the while loop of parse_sd_options over `remaining`
RECURSIVE parse_sd_options_loop(_)
parse_sd_options_loop(remaining) ==
    IF Len(remaining) < 4 THEN [ok |-> TRUE, panic |-> FALSE, options |-> <<>>]
    ELSE LET option_length == be_u16(remaining) IN
         IF option_length < 4 \/ option_length > Len(remaining)
         THEN [ok |-> TRUE, panic |-> FALSE, options |-> <<>>]
         ELSE LET rest == Drop(remaining, 4)
                  option_data == Take(rest, option_length - 4)
                  o == parse_sd_option(At(remaining, 2), option_data)
              IN  IF ~o.ok THEN ParseErr
                  ELSE LET more == parse_sd_options_loop(
                                       Drop(remaining, SdOptionAdvance(option_length)))
                       IN  IF ~more.ok THEN ParseErr
                           ELSE [ok |-> TRUE, panic |-> FALSE,
                                 options |-> <<o.option>> \o more.options]

parse_sd_options(input, length) ==
    IF length > Len(input) THEN ParsePanic     \* &input[..length]
    ELSE parse_sd_options_loop(Take(input, length))

parse_sd_packet(input) ==
    IF Len(input) < 8 THEN ParseErr
    ELSE LET flags_byte == be_u8(input)
             entries_length == be_u32(Drop(input, 4))
             es == parse_sd_entries(Drop(input, 8), entries_length \div 16)
         IN  IF ~es.ok THEN ParseErr
             ELSE IF Len(es.rest) < 4 THEN ParseErr
             ELSE LET os == parse_sd_options(Drop(es.rest, 4), be_u32(es.rest)) IN
                  IF ~os.ok THEN os
                  ELSE [ok |-> TRUE, panic |-> FALSE,
                        sd_packet |-> [flags |-> [reboot |-> Bit(flags_byte, 7),
                                                  unicast |-> Bit(flags_byte, 6),
                                                  explicit_initial_data_control
                                                      |-> Bit(flags_byte, 5)],
                                       entries |-> es.entries,
                                       options |-> os.options]]

\* every option teaches its port field
LearnsPort_AnyOption(option) == TRUE

\* learn_ports_from_sd: one match arm per option
LearnsPort(option) ==
    option.kind \in {"Ipv4Endpoint", "Ipv4Multicast", "Ipv4SDEndpoint",
                     "Ipv6Endpoint", "Ipv6Multicast", "Ipv6SDEndpoint"}

RECURSIVE learn_ports_from_sd(_, _)
learn_ports_from_sd(options, ports) ==
    IF options = <<>> THEN ports
    ELSE learn_ports_from_sd(Tail(options),
             IF LearnsPort(Head(options)) THEN ports \cup {Head(options).port}
             ELSE ports)

---------------------------------------------------------------------------
(* MSI containers: msi_parser.rs                                           *)

\* Ok(messages), Err (a format error) or a panic (&message_data[16..])
RECURSIVE parse_msi_packet(_)
parse_msi_packet(remaining) ==
    IF Len(remaining) < 16 THEN [ok |-> TRUE, panic |-> FALSE, messages |-> <<>>]
    ELSE LET header == parse_someip_header(remaining).header
             message_length == header.length
         IN  IF message_length > Len(remaining) THEN ParseErr
             ELSE IF message_length < 16 THEN ParsePanic
             ELSE LET more == parse_msi_packet(Drop(remaining, message_length)) IN
                  IF ~more.ok THEN more
                  ELSE [ok |-> TRUE, panic |-> FALSE,
                        messages |-> <<[header |-> header,
                                        payload |-> Slice(remaining, 16, message_length)]>>
                                     \o more.messages]

---------------------------------------------------------------------------
(* Maps (HashMap) as functions, Option<T> as a sequence of length 0 or 1.  *)

None == <<>>
Some(x) == <<x>>

MapInsert(m, k, v) == [x \in DOMAIN m \cup {k} |-> IF x = k THEN v ELSE m[x]]
MapRemove(m, k) == [x \in DOMAIN m \ {k} |-> m[x]]
MapRetain(m, keep(_)) == [x \in {y \in DOMAIN m : keep(y)} |-> m[x]]
EmptyMap == [x \in {} |-> 0]

\* VecDeque: iter().position(|k| k == key) and remove(pos)
RECURSIVE RemoveFirst(_, _)
RemoveFirst(q, key) ==
    IF q = <<>> THEN <<>>
    ELSE IF Head(q) = key THEN Tail(q)
    ELSE <<Head(q)>> \o RemoveFirst(Tail(q), key)

\* u32 values are kept below 2^31, the largest the checker computes with; a
\* u32 subtraction that wraps gives a value of at least 2^32 - 8, which is
\* represented by the same distance below 2^31
WrappingSub8(x) == IF x >= 8 THEN x - 8 ELSE 2147483647 - 7 + x

---------------------------------------------------------------------------
(* Session manager: session.rs                                             *)

SessionManager_new(timeout, max_pairs) ==
    [sessions |-> EmptyMap, timeout |-> timeout, max_pairs |-> max_pairs,
     pending_responses |-> <<>>]

\* a key that leaves the session id out
SessionKey_NoSessionId(message) ==
    <<message.header.service_id, message.header.client_id, 0>>

\* the key under which add_request stores and add_response looks up
SessionKey(message) ==
    <<message.header.service_id, message.header.client_id, message.header.session_id>>

\* an add_request that never evicts
EvictOldest_None(self) == self

\* while let Some(key) = pending_responses.pop_front() { if contains { remove; break } }
RECURSIVE EvictOldest(_)
EvictOldest(self) ==
    IF self.pending_responses = <<>> THEN self
    ELSE LET key == Head(self.pending_responses)
             popped == [self EXCEPT !.pending_responses = Tail(@)]
         IN  IF key \in DOMAIN self.sessions
             THEN [popped EXCEPT !.sessions = MapRemove(@, key)]
             ELSE EvictOldest(popped)

add_request(self, message, t) ==
    LET evicted == IF Cardinality(DOMAIN self.sessions) >= self.max_pairs
                   THEN EvictOldest(self) ELSE self
        key == SessionKey(message)
    IN  [evicted EXCEPT
           !.sessions = MapInsert(@, key, [request |-> message, response |-> None,
                                           timeout |-> t + self.timeout]),
           !.pending_responses = Append(@, key)]

IsResponseType(message) == message.header.message_type.variant \in {"Response", "Error"}

\* result: "some" (Ok(Some(pair))), "none" (Ok(None)) or "err"
add_response(self, message) ==
    LET key == SessionKey(message) IN
    IF key \in DOMAIN self.sessions
    THEN IF IsResponseType(message)
         THEN LET pair == [self.sessions[key] EXCEPT !.response = Some(message)] IN
              [result |-> "some", pair |-> Some(pair),
               self |-> [self EXCEPT !.sessions[key] = pair,
                                     !.pending_responses = RemoveFirst(@, key)]]
         ELSE [result |-> "err", pair |-> None, self |-> self]
    ELSE [result |-> "none", pair |-> None, self |-> self]

\* a sweep that does not look at the response
Expired_IgnoresResponse(self, t) ==
    {key \in DOMAIN self.sessions : self.sessions[key].timeout <= t}

Expired(self, t) ==
    {key \in DOMAIN self.sessions :
        self.sessions[key].response = None /\ self.sessions[key].timeout <= t}

\* the for loop over `expired`, in the order `order` the map iteration gave
RECURSIVE RemoveExpired(_, _)
RemoveExpired(self, order) ==
    IF order = <<>> THEN [self |-> self, result |-> <<>>]
    ELSE LET key == Head(order)
             after == [self EXCEPT !.sessions = MapRemove(@, key),
                                   !.pending_responses = RemoveFirst(@, key)]
             more == RemoveExpired(after, Tail(order))
         IN  [self |-> more.self,
              result |-> <<self.sessions[key]>> \o more.result]

\* every order in which a HashMap can yield the keys of `keys`
Orders(keys) ==
    {order \in [1..Cardinality(keys) -> keys] :
        \A i, j \in 1..Cardinality(keys) : i # j => order[i] # order[j]}

cleanup_expired_sessions(self, t, order) == RemoveExpired(self, order)

---------------------------------------------------------------------------
(* TP reassembler: tp_parser.rs                                            *)

TPParser_new(timeout) == [pending_messages |-> EmptyMap, timeout |-> timeout]

\* the offset of a first fragment / of a later fragment
TpOffset(payload, is_first) ==
    IF is_first
    THEN (At(payload, 0) % 64) * 65536 + At(payload, 1) * 256 + At(payload, 2)
    ELSE be_u32(payload)

parse_tp_segment(payload, header) ==
    IF Len(payload) < 5 THEN ParseErr
    ELSE LET first_byte == At(payload, 0)
             is_first == Bit(first_byte, 7)
             is_last == Bit(first_byte, 6)
         IN  [ok |-> TRUE, panic |-> FALSE,
              segment |-> [header |-> header, is_first |-> is_first,
                           is_last |-> is_last,
                           offset |-> TpOffset(payload, is_first),
                           payload |-> Drop(payload, IF is_first THEN 3 ELSE 4)]]

cleanup_expired_messages(self, t) ==
    [self EXCEPT !.pending_messages =
        MapRetain(@, LAMBDA k : t - self.pending_messages[k].last_updated <= self.timeout)]

\* the offsets of `segments` in ascending order (sort_by_key)
RECURSIVE SortedOffsets(_)
SortedOffsets(offsets) ==
    IF offsets = {} THEN <<>>
    ELSE LET least == CHOOSE o \in offsets : \A p \in offsets : o <= p
         IN  <<least>> \o SortedOffsets(offsets \ {least})

\* payload[seg_offset..seg_offset + len].copy_from_slice(data)
CopyAt(buffer, seg_offset, data) ==
    [i \in 1..Len(buffer) |->
        IF i > seg_offset /\ i <= seg_offset + Len(data)
        THEN data[i - seg_offset] ELSE buffer[i]]

RECURSIVE CopySegments(_, _, _)
CopySegments(buffer, segments, order) ==
    IF order = <<>> THEN [panic |-> FALSE, payload |-> buffer]
    ELSE LET off == Head(order) IN
         IF off + Len(segments[off]) > Len(buffer)
         THEN [panic |-> TRUE, payload |-> buffer]
         ELSE CopySegments(CopyAt(buffer, off, segments[off]), segments, Tail(order))

reassemble_message(pending_msg) ==
    LET total_size == pending_msg.total_size[1]
        c == CopySegments([i \in 1..total_size |-> 0], pending_msg.segments,
                          SortedOffsets(DOMAIN pending_msg.segments))
    IN  [panic |-> c.panic,
         message |-> [header |-> pending_msg.header, payload |-> c.payload]]

\* after a first fragment is stored: Ok(Some(..)) for a single-fragment
\* message, Ok(None) otherwise
FirstSegmentResult(self, segment) ==
    IF segment.is_last
    THEN [result |-> "some", self |-> self,
          message |-> Some([header |-> segment.header, payload |-> segment.payload])]
    ELSE [result |-> "none", self |-> self, message |-> None]

\* result: "some", "none" or "panic"
process_segment(self0, segment, t, checks) ==
    LET key == <<segment.header.service_id, segment.header.client_id,
                 segment.header.session_id>>
        self == cleanup_expired_messages(self0, t)
        len == Len(segment.payload)
    IN
    IF segment.is_first
    THEN IF ~segment.is_last /\ segment.header.length < 8 /\ checks
         THEN [result |-> "panic", self |-> self, message |-> None]
         ELSE LET total_size == IF segment.is_last THEN segment.offset + len
                                ELSE WrappingSub8(segment.header.length)
                  stored == [self EXCEPT !.pending_messages = MapInsert(@, key,
                                [header |-> segment.header,
                                 segments |-> MapInsert(EmptyMap, segment.offset,
                                                        segment.payload),
                                 expected_offset |-> segment.offset + len,
                                 total_size |-> Some(total_size),
                                 last_updated |-> t])]
              IN  FirstSegmentResult(stored, segment)
    ELSE IF key \notin DOMAIN self.pending_messages
    THEN [result |-> "none", self |-> self, message |-> None]
    ELSE LET touched == [self.pending_messages[key] EXCEPT !.last_updated = t] IN
         IF segment.offset # touched.expected_offset
         THEN [result |-> "none", message |-> None,
               self |-> [self EXCEPT !.pending_messages[key] =
                           [touched EXCEPT !.segments =
                               MapInsert(@, segment.offset, segment.payload)]]]
         ELSE LET pending_msg ==
                      [touched EXCEPT
                         !.segments = MapInsert(@, segment.offset, segment.payload),
                         !.expected_offset = @ + len,
                         !.total_size = IF segment.is_last
                                        THEN Some(segment.offset + len) ELSE @]
              IN  IF pending_msg.expected_offset >= pending_msg.total_size[1]
                  THEN LET removed == [self EXCEPT !.pending_messages = MapRemove(@, key)]
                           r == reassemble_message(pending_msg)
                       IN  IF r.panic
                           THEN [result |-> "panic", self |-> removed, message |-> None]
                           ELSE [result |-> "some", self |-> removed,
                                 message |-> Some(r.message)]
                  ELSE [result |-> "none", message |-> None,
                        self |-> [self EXCEPT !.pending_messages[key] = pending_msg]]

---------------------------------------------------------------------------
(* TCP flow controller: flow_control.rs                                    *)

TcpFlowController_new(max_connections, segment_timeout, connection_timeout) ==
    [connections |-> EmptyMap, max_connections |-> max_connections,
     segment_timeout |-> segment_timeout,
     connection_timeout |-> connection_timeout]

cleanup_expired_connections(self, t) ==
    [self EXCEPT !.connections =
        MapRetain(@, LAMBDA k : ~self.connections[k].closed
                     \/ t - self.connections[k].last_activity <= self.connection_timeout)]

\* the keys min_by_key(last_activity) can return: the map's iteration order
\* decides between streams of equal last_activity
OldestKeys(self) ==
    {k \in DOMAIN self.connections :
        \A other \in DOMAIN self.connections :
            self.connections[k].last_activity <= self.connections[other].last_activity}

\* a table that is never made room in
EvictForCapacity_Never(self, victim) == self

\* the eviction before the lookup; `victim` is the key min_by_key yields
EvictForCapacity(self, victim) ==
    IF Cardinality(DOMAIN self.connections) >= self.max_connections
       /\ victim \in DOMAIN self.connections
    THEN [self EXCEPT !.connections = MapRemove(@, victim)]
    ELSE self

\* the victims the eviction of this call can pick (None: no eviction)
Victims(self0, t) ==
    LET self == cleanup_expired_connections(self0, t) IN
    IF Cardinality(DOMAIN self.connections) >= self.max_connections
       /\ DOMAIN self.connections # {}
    THEN OldestKeys(self) ELSE {None}

\* sort_by_key(|seg| seg.seq_num): a stable insertion sort
RECURSIVE InsertBySeq(_, _)
InsertBySeq(sorted, seg) ==
    IF sorted = <<>> THEN <<seg>>
    ELSE IF seg.seq_num < Head(sorted).seq_num THEN <<seg>> \o sorted
    ELSE <<Head(sorted)>> \o InsertBySeq(Tail(sorted), seg)

RECURSIVE SortBySeq(_)
SortBySeq(segments) ==
    IF segments = <<>> THEN <<>>
    ELSE InsertBySeq(SortBySeq(SubSeq(segments, 1, Len(segments) - 1)),
                     segments[Len(segments)])

\* a reassembly that never takes a held segment
DrainSegments_None(stream, reassembled) ==
    [stream |-> stream, reassembled |-> reassembled]

\* the while loop of process_out_of_order_segments
RECURSIVE DrainSegments(_, _)
DrainSegments(stream, reassembled) ==
    IF stream.segments = <<>>
    THEN [stream |-> stream, reassembled |-> reassembled]
    ELSE LET next_segment == Head(stream.segments) IN
         IF next_segment.seq_num = stream.expected_seq
         THEN DrainSegments(
                  [stream EXCEPT !.segments = Tail(@),
                                 !.expected_seq = @ + Len(next_segment.data)],
                  reassembled \o next_segment.data)
         ELSE IF next_segment.seq_num < stream.expected_seq
         THEN DrainSegments([stream EXCEPT !.segments = Tail(@)], reassembled)
         ELSE [stream |-> stream, reassembled |-> reassembled]

process_out_of_order_segments(self, stream, reassembled, t) ==
    LET d == DrainSegments(stream, reassembled) IN
    [d EXCEPT !.stream.segments =
        SelectSeq(@, LAMBDA seg : t - seg.timestamp <= self.segment_timeout)]

\* the data branch of process_tcp_packet, on the stream after the flag handling
AdmitData(self, stream, tcp_packet, payload, t) ==
    IF payload = <<>> THEN [result |-> "none", stream |-> stream, data |-> None]
    ELSE IF tcp_packet.seq_num = stream.expected_seq
    THEN LET d == process_out_of_order_segments(self,
                      [stream EXCEPT !.expected_seq = @ + Len(payload)], payload, t)
         IN  [result |-> "some", stream |-> d.stream, data |-> Some(d.reassembled)]
    ELSE IF tcp_packet.seq_num > stream.expected_seq
    THEN [result |-> "none", data |-> None,
          stream |-> [stream EXCEPT !.segments =
                        SortBySeq(Append(@, [seq_num |-> tcp_packet.seq_num,
                                             data |-> payload, timestamp |-> t]))]]
    ELSE [result |-> "none", stream |-> stream, data |-> None]

\* the SYN, FIN and RST handling; `done` when the function returns there
HandleFlags(stream, tcp_packet, payload) ==
    LET syn == tcp_packet.flags["syn"]
        fin == tcp_packet.flags["fin"]
        rst == tcp_packet.flags["rst"]
        s1 == IF syn THEN [stream EXCEPT !.expected_seq = tcp_packet.seq_num + 1]
              ELSE stream
        s2 == IF fin
              THEN [s1 EXCEPT !.fin_seq = Some(tcp_packet.seq_num + Len(payload)),
                              !.closed = TRUE]
              ELSE s1
    IN  IF syn /\ payload = <<>> THEN [done |-> TRUE, stream |-> s1]
        ELSE IF rst THEN [done |-> TRUE, stream |-> [s2 EXCEPT !.closed = TRUE]]
        ELSE [done |-> FALSE, stream |-> s2]

\* result: "some" (Ok(Some(bytes))) or "none" (Ok(None))
process_tcp_packet(self0, src_ip, dst_ip, tcp_packet, payload, t, victim) ==
    LET key == <<src_ip, tcp_packet.src_port, dst_ip, tcp_packet.dst_port>>
        self == EvictForCapacity(cleanup_expired_connections(self0, t), victim)
        found == IF key \in DOMAIN self.connections
                 THEN self.connections[key]
                 ELSE [segments |-> <<>>, expected_seq |-> tcp_packet.seq_num,
                       window_size |-> tcp_packet.window_size, last_activity |-> t,
                       closed |-> FALSE, fin_seq |-> None]
        stream == [found EXCEPT !.last_activity = t,
                                !.window_size = tcp_packet.window_size]
        f == HandleFlags(stream, tcp_packet, payload)
        a == IF f.done
             THEN [result |-> "none", stream |-> f.stream, data |-> None]
             ELSE AdmitData(self, f.stream, tcp_packet, payload, t)
    IN  [result |-> a.result, data |-> a.data,
         self |-> [self EXCEPT !.connections = MapInsert(@, key, a.stream)]]

---------------------------------------------------------------------------
(* Orchestrator: main.rs                                                   *)

\* The state process_raw_packet works on: known_ports, session_manager,
\* tp_parser, tcp_flow and messages.
Ctx(ports, sm, tp, tcp, out) ==
    [known_ports |-> ports, session_manager |-> sm, tp_parser |-> tp,
     tcp_flow |-> tcp, messages |-> out]

create_someip_message(timestamp, src_ip, dst_ip, src_port, dst_port, header, payload) ==
    [timestamp |-> timestamp, header |-> header, payload |-> payload,
     src_ip |-> src_ip, dst_ip |-> dst_ip,
     src_port |-> src_port, dst_port |-> dst_port]

handle_someip_message(msg, ctx, t) ==
    LET variant == msg.header.message_type.variant IN
    IF variant \in {"Request", "RequestNoReturn"}
    THEN [ctx EXCEPT !.session_manager = add_request(@, msg, t)]
    ELSE IF variant \in {"Response", "Error"}
    THEN LET r == add_response(ctx.session_manager, msg) IN
         [ctx EXCEPT !.session_manager = r.self,
                     !.messages = IF r.result = "some"
                                  THEN @ \o <<r.pair[1].request, msg>>
                                  ELSE @]
    ELSE [ctx EXCEPT !.messages = Append(@, msg)]

\* the payload a plain UDP SomeIP packet is given: udp.payload[16..16 + length]
PlainPayload(udp_payload, header) == Slice(udp_payload, 16, 16 + header.length)

\* the payload of one message framed out of a TCP chunk
TcpPayload(data, offset, msg_len) == Slice(data, offset + 16, offset + msg_len)

Outcome(o, ctx) == [outcome |-> o, ctx |-> ctx]

RECURSIVE HandleMsiMessages(_, _, _, _, _, _)
HandleMsiMessages(msgs, raw_packet, ips, udp, ctx, t) ==
    IF msgs = <<>> THEN ctx
    ELSE HandleMsiMessages(Tail(msgs), raw_packet, ips, udp,
             handle_someip_message(
                 create_someip_message(raw_packet.timestamp, ips[1], ips[2],
                     udp.src_port, udp.dst_port, Head(msgs).header, Head(msgs).payload),
                 ctx, t),
             t)

\* the UDP arm after the SD block: TP, MSI or plain
UdpDispatch(raw_packet, ips, udp, header, ctx, t, checks) ==
    LET body == Drop(udp.payload, 16)
        is_tp == Bit(as_u8(header.message_type), 5)
    IN
    IF is_tp
    THEN LET seg == parse_tp_segment(body, header) IN
         IF ~seg.ok THEN Outcome("err", ctx)
         ELSE LET r == process_segment(ctx.tp_parser, seg.segment, t, checks)
                  after == [ctx EXCEPT !.tp_parser = r.self]
              IN  IF r.result = "panic" THEN Outcome("panic", after)
                  ELSE IF r.result = "some"
                  THEN Outcome("ok", handle_someip_message(
                           create_someip_message(raw_packet.timestamp, ips[1], ips[2],
                               udp.src_port, udp.dst_port,
                               r.message[1].header, r.message[1].payload),
                           after, t))
                  ELSE Outcome("ok", after)
    ELSE IF header.service_id = 65535 /\ header.method_id = 33025
    THEN LET msi == parse_msi_packet(body) IN
         IF msi.panic THEN Outcome("panic", ctx)
         ELSE IF ~msi.ok THEN Outcome("err", ctx)
         ELSE Outcome("ok", HandleMsiMessages(msi.messages, raw_packet, ips, udp, ctx, t))
    ELSE IF 16 + header.length > Len(udp.payload)
    THEN Outcome("panic", ctx)
    ELSE Outcome("ok", handle_someip_message(
             create_someip_message(raw_packet.timestamp, ips[1], ips[2],
                 udp.src_port, udp.dst_port, header, PlainPayload(udp.payload, header)),
             ctx, t))

IsSdPacket(udp, header, sd_port) ==
    /\ (udp.src_port = sd_port \/ udp.dst_port = sd_port)
    /\ header.service_id = 65535
    /\ header.method_id = 33024

\* a gate that lets every port through
PortKnown_Open(ports, transport) == TRUE

\* the port gate of the UDP and of the TCP arm
PortKnown(ports, transport) ==
    transport.src_port \in ports \/ transport.dst_port \in ports

ProcessUdp(raw_packet, ips, udp, sd_port, ctx, t, checks) ==
    IF ~PortKnown(ctx.known_ports, udp) THEN Outcome("ok", ctx)
    ELSE IF Len(udp.payload) < 16 THEN Outcome("ok", ctx)
    ELSE LET header == parse_someip_header(udp.payload).header IN
         IF IsSdPacket(udp, header, sd_port)
         THEN LET sd == parse_sd_packet(Drop(udp.payload, 16)) IN
              IF sd.panic THEN Outcome("panic", ctx)
              ELSE IF ~sd.ok THEN Outcome("err", ctx)
              ELSE UdpDispatch(raw_packet, ips, udp, header,
                       [ctx EXCEPT !.known_ports =
                           learn_ports_from_sd(sd.sd_packet.options, @)],
                       t, checks)
         ELSE UdpDispatch(raw_packet, ips, udp, header, ctx, t, checks)

\* the while loop over one reassembled TCP chunk
RECURSIVE FrameTcpData(_, _, _, _, _, _, _)
FrameTcpData(data, offset, raw_packet, ips, tcp, ctx, t) ==
    IF offset + 16 > Len(data) THEN ctx
    ELSE LET header == parse_someip_header(Drop(data, offset)).header
             msg_len == 16 + header.length
         IN  IF offset + msg_len > Len(data) THEN ctx
             ELSE FrameTcpData(data, offset + msg_len, raw_packet, ips, tcp,
                      handle_someip_message(
                          create_someip_message(raw_packet.timestamp, ips[1], ips[2],
                              tcp.src_port, tcp.dst_port, header,
                              TcpPayload(data, offset, msg_len)),
                          ctx, t),
                      t)

ProcessTcp(raw_packet, ips, tcp, ctx, t, victim) ==
    IF ~PortKnown(ctx.known_ports, tcp) THEN Outcome("ok", ctx)
    ELSE LET r == process_tcp_packet(ctx.tcp_flow, ips[1], ips[2], tcp, tcp.payload,
                                     t, victim)
             after == [ctx EXCEPT !.tcp_flow = r.self]
         IN  IF r.result = "some"
             THEN Outcome("ok", FrameTcpData(r.data[1], 0, raw_packet, ips, tcp, after, t))
             ELSE Outcome("ok", after)

\* eth.vlan.as_ref().map(|v| v.tci & 0x0FFF)
VlanId(link_layer) ==
    IF link_layer.kind = "Ethernet" /\ link_layer.has_vlan
    THEN Some(link_layer.tci % 4096) ELSE None

\* the VLAN filter: TRUE when the frame is skipped
VlanSkips(target, link_layer) ==
    LET vlan_id == VlanId(link_layer) IN
    target # None /\ vlan_id # None /\ vlan_id[1] # target[1]

\* outcome: "ok" (Ok(())), "err" (Err(_)) or "panic"
process_raw_packet(raw_packet, sd_port, target, ctx, t, checks, victim) ==
    LET link_layer == parse_link_layer(raw_packet.data) IN
    IF ~link_layer.ok THEN Outcome("err", ctx)
    ELSE IF VlanSkips(target, link_layer) THEN Outcome("ok", ctx)
    ELSE LET network_layer == parse_network_layer(link_layer.payload, link_layer.ethertype) IN
         IF network_layer.panic THEN Outcome("panic", ctx)
         ELSE IF ~network_layer.ok THEN Outcome("err", ctx)
         ELSE LET ips == <<network_layer.src_ip, network_layer.dst_ip>>
                  transport_layer == parse_transport_layer(network_layer.payload,
                                         network_layer.protocol, checks)
              IN  IF transport_layer.panic THEN Outcome("panic", ctx)
                  ELSE IF ~transport_layer.ok THEN Outcome("err", ctx)
                  ELSE IF transport_layer.kind = "UDP"
                  THEN ProcessUdp(raw_packet, ips, transport_layer, sd_port, ctx, t, checks)
                  ELSE ProcessTcp(raw_packet, ips, transport_layer, ctx, t, victim)

---------------------------------------------------------------------------
(* The frames of the capture: byte buffers built layer by layer.           *)

U16Bytes(x) == <<x \div 256, x % 256>>
U32Bytes(x) == <<x \div 16777216, (x \div 65536) % 256, (x \div 256) % 256, x % 256>>

LearnedPort == 50001    \* announced by the SD frames
OtherPort == 50002      \* announced by no endpoint option
SomeVlan == 5           \* the VLAN id the filter is set to, when it is set
OtherVlan == 7

MacA == <<2, 0, 0, 0, 0, 1>>
MacB == <<2, 0, 0, 0, 0, 2>>
IpA == <<10, 0, 0, 1>>
IpB == <<10, 0, 0, 2>>

\* vlan: None for an untagged frame, Some(tci) for a tagged one
Ethernet(vlan, ethertype, payload) ==
    MacB \o MacA
    \o (IF vlan = None THEN <<>> ELSE <<129, 0>> \o U16Bytes(vlan[1]))
    \o U16Bytes(ethertype) \o payload

Ipv4(protocol, payload) ==
    <<69, 0>> \o U16Bytes(20 + Len(payload)) \o <<0, 0, 0, 0, 64, protocol, 0, 0>>
    \o IpA \o IpB \o payload

Udp(src_port, dst_port, payload) ==
    U16Bytes(src_port) \o U16Bytes(dst_port) \o U16Bytes(8 + Len(payload))
    \o <<0, 0>> \o payload

\* flag_bits: the low 12 bits of the data-offset/flags word
Tcp(src_port, dst_port, seq_num, data_offset, flag_bits, payload) ==
    U16Bytes(src_port) \o U16Bytes(dst_port) \o U32Bytes(seq_num) \o U32Bytes(0)
    \o U16Bytes(data_offset * 4096 + flag_bits) \o <<16, 0, 0, 0, 0, 0>> \o payload

SomeIp(service_id, method_id, length, client_id, session_id, message_type, rest) ==
    U16Bytes(service_id) \o U16Bytes(method_id) \o U32Bytes(length)
    \o U16Bytes(client_id) \o U16Bytes(session_id)
    \o <<1, 1, message_type, 0>> \o rest

UdpFrame(vlan, src_port, dst_port, someip) ==
    Ethernet(vlan, 2048, Ipv4(17, Udp(src_port, dst_port, someip)))

TcpFrame(src_port, dst_port, seq_num, payload) ==
    Ethernet(None, 2048, Ipv4(6, Tcp(src_port, dst_port, seq_num, 5, 16, payload)))

\* an SD option as parse_sd_options reads it: the u16 counts the whole option
SdOptionBytes(length, option_type, body) ==
    U16Bytes(length) \o <<option_type, 0>> \o body

Endpoint4Body(port) == IpA \o <<17>> \o U16Bytes(port)
Ip6A == <<254, 128, 0, 0, 0, 0, 0, 0, 0, 0, 0, 0, 0, 0, 0, 1>>
Endpoint6Body(port) == Ip6A \o <<17>> \o U16Bytes(port)

\* the ports the SD frames announce, one per option kind
MulticastPort == 50003
SdEndpointPort == 50004
Endpoint6Port == 50005
Multicast6Port == 50006
SdEndpoint6Port == 50007

\* the six port options, then a load-balancing option whose priority, a
\* configuration option whose item and an option of unknown type (0x99) whose
\* body hold the bytes of OtherPort
SdOptions ==
    SdOptionBytes(11, 4, Endpoint4Body(LearnedPort))
    \o SdOptionBytes(11, 20, Endpoint4Body(MulticastPort))
    \o SdOptionBytes(11, 36, Endpoint4Body(SdEndpointPort))
    \o SdOptionBytes(23, 6, Endpoint6Body(Endpoint6Port))
    \o SdOptionBytes(23, 22, Endpoint6Body(Multicast6Port))
    \o SdOptionBytes(23, 38, Endpoint6Body(SdEndpoint6Port))
    \o SdOptionBytes(9, 2, <<0>> \o U16Bytes(OtherPort) \o U16Bytes(1))
    \o SdOptionBytes(8, 1, <<0, 2>> \o U16Bytes(OtherPort))
    \o SdOptionBytes(11, 153, Endpoint4Body(OtherPort))

SdBody(options) == <<192, 0, 0, 0>> \o U32Bytes(0) \o U32Bytes(Len(options)) \o options

Pad8 == <<0, 0, 0, 0, 0, 0, 0, 0>>

\* an SD packet followed by 8 more bytes, so that udp.payload[16..16 + length]
\* exists
SdFrame(port, options) ==
    UdpFrame(None, port, port,
        SomeIp(65535, 33024, 8 + Len(SdBody(options)), 0, 1, 2,
               SdBody(options) \o Pad8))

FrameSdPadded == SdFrame(SdPort, SdOptions)

\* the SD header and body on a port that is not the SD port
FrameSdOffPort == SdFrame(LearnedPort, SdOptionBytes(11, 4, Endpoint4Body(OtherPort)))

\* SD packet whose length field is payload + 8, nothing after the SD body
FrameSdExact ==
    UdpFrame(None, SdPort, SdPort,
        SomeIp(65535, 33024, 8 + Len(SdBody(SdOptions)), 0, 1, 2, SdBody(SdOptions)))

\* SD packet whose endpoint option gives the length of the body after the
\* four option-header bytes (7)
FrameSdBodyLength ==
    SdFrame(SdPort, SdOptionBytes(7, 4, Endpoint4Body(LearnedPort)))

\* a plain message of type message_type; `length` is the header's length
\* field and `rest` the bytes after the header
PlainFrame(vlan, port, session_id, message_type, length, rest) ==
    UdpFrame(vlan, port, port, SomeIp(4660, 1, length, 1, session_id, message_type, rest))

FrameNotification(vlan, port) == PlainFrame(vlan, port, 1, 2, 8, Pad8)
FrameRequest == PlainFrame(None, SdPort, 1, 0, 8, Pad8)
FrameResponse == PlainFrame(None, SdPort, 1, 128, 8, Pad8)
\* a Request with no payload: length = 8, as the SomeIP header defines it
FrameRequestExact == PlainFrame(None, SdPort, 1, 0, 8, <<>>)
\* length = payload + 8 with a payload of two bytes, as the SomeIP header defines it
FrameExact == PlainFrame(None, SdPort, 1, 2, 10, <<170, 187>>)
FrameZeroLength == PlainFrame(None, SdPort, 1, 2, 0, <<>>)

\* an MSI container with one embedded message of 18 bytes in all
FrameMsi ==
    UdpFrame(None, SdPort, SdPort,
        SomeIp(65535, 33025, 8 + 18, 0, 1, 2,
               SomeIp(4660, 1, 18, 1, 2, 2, <<170, 187>>)))

\* an MSI container whose embedded length exceeds the bytes that remain
FrameMsiTruncated ==
    UdpFrame(None, SdPort, SdPort,
        SomeIp(65535, 33025, 8 + 18, 0, 1, 2,
               SomeIp(4660, 1, 40, 1, 2, 2, <<170, 187>>)))

\* a TP fragment that is first and last (0xC0, offset 0), header length 4
FrameTpSingle ==
    UdpFrame(None, SdPort, SdPort,
        SomeIp(4660, 1, 4, 1, 3, 34, <<192, 0, 0, 170, 187>>))

\* a TP fragment with fewer than five bytes after the SomeIP header
FrameTpShort ==
    UdpFrame(None, SdPort, SdPort, SomeIp(4660, 1, 11, 1, 3, 34, <<192, 0, 0>>))

\* a first TP fragment that is not the last, header length 4
FrameTpFirst ==
    UdpFrame(None, SdPort, SdPort,
        SomeIp(4660, 1, 4, 1, 4, 34, <<128, 0, 0, 170, 187>>))

\* one SomeIP message with length 2 and two bytes after the header
FrameTcp(port) ==
    TcpFrame(port, port, 1000, SomeIp(4660, 1, 2, 1, 5, 2, <<170, 187>>))

FrameShort == <<2, 0, 0>>
FrameArp == Ethernet(None, 2054, Pad8)
FrameIcmp == Ethernet(None, 2048, Ipv4(1, Pad8))

\* The captures the model reads, by the traffic they hold: a capture is a
\* sequence of at most MaxFrames frames of one family.
DiscoveryFrames ==
    { FrameSdPadded, FrameSdBodyLength, FrameSdOffPort,
      FrameNotification(None, LearnedPort), FrameNotification(None, OtherPort),
      FrameTcp(LearnedPort), FrameTcp(OtherPort) }

PayloadFrames ==
    { FrameNotification(None, SdPort), FrameZeroLength, FrameMsi, FrameTcp(SdPort),
      FrameExact, FrameArp, FrameShort }

SegmentFrames ==
    { FrameTpSingle, FrameTpShort, FrameTpFirst, FrameMsiTruncated, FrameIcmp }

VlanFrames ==
    { FrameNotification(Some(SomeVlan), SdPort),
      FrameNotification(Some(OtherVlan), SdPort),
      FrameNotification(None, SdPort), FrameRequest, FrameResponse }

\* requests, their responses and a notification in between
PairFrames ==
    { FrameRequest, FrameResponse, FrameRequestExact, FrameNotification(None, SdPort) }

Families == {"discovery", "payload", "segments", "vlan", "pairs"}

FramesOf(family) ==
    CASE family = "discovery" -> DiscoveryFrames
      [] family = "payload" -> PayloadFrames
      [] family = "segments" -> SegmentFrames
      [] family = "vlan" -> VlanFrames
      [] family = "pairs" -> PairFrames

---------------------------------------------------------------------------
(* The run: the reader task, the channel and main.                         *)

Init ==
    /\ capture_family \in Families
    \* only the TP segments hold arithmetic that can overflow
    /\ overflow_checks \in IF capture_family = "segments" THEN BOOLEAN ELSE {TRUE}
    /\ target_vlan \in IF capture_family = "vlan" THEN {None, Some(SomeVlan)} ELSE {None}
    /\ now = 0
    /\ produced = <<>>
    /\ reader_pc = "read"
    /\ reader_packet = None
    /\ channel = <<>>
    /\ rx_dropped = FALSE
    /\ main_pc = "loop"
    /\ handed = <<>>
    /\ known_ports = {SdPort}
    /\ session_manager = SessionManager_new(RequestTimeout, MaxPairs)
    /\ tp_parser = TPParser_new(TpTimeout)
    /\ tcp_flow = TcpFlowController_new(MaxConnections, SegmentTimeout, ConnectionTimeout)
    /\ messages = <<>>
    /\ swept = FALSE
    /\ exported = None
    /\ result = None
    /\ calls = <<>>

ConsumerVars == <<main_pc, handed, known_ports, session_manager, tp_parser,
                  tcp_flow, messages, swept, exported, result, calls>>
ConfigVars == <<overflow_checks, target_vlan, capture_family>>

\* capture.next_packet() yields a packet
ReaderRead ==
    /\ reader_pc = "read"
    /\ Len(produced) < MaxFrames
    /\ reader_pc' = "send"
    /\ \E data \in FramesOf(capture_family) :
          LET raw_packet == [timestamp |-> Len(produced) + 1, data |-> data] IN
          /\ reader_packet' = Some(raw_packet)
          /\ produced' = Append(produced, raw_packet)
    /\ UNCHANGED <<ConfigVars, now, channel, rx_dropped, ConsumerVars>>

\* the reader stops at the end of the file but keeps the sender
ReaderEof_SenderKept ==
    /\ reader_pc = "read"
    /\ reader_pc' = "eof"
    /\ UNCHANGED <<ConfigVars, now, produced, reader_packet, channel, rx_dropped,
                   ConsumerVars>>

\* capture.next_packet() yields Err: the end of the file
ReaderEof ==
    /\ reader_pc = "read"
    /\ reader_pc' = "done"
    /\ UNCHANGED <<ConfigVars, now, produced, reader_packet, channel, rx_dropped,
                   ConsumerVars>>

\* a send that never waits for room
ReaderSend_NoBackpressure ==
    /\ reader_pc = "send"
    /\ ~rx_dropped
    /\ channel' = Append(channel, reader_packet[1])
    /\ reader_packet' = None
    /\ reader_pc' = "read"
    /\ UNCHANGED <<ConfigVars, now, produced, rx_dropped, ConsumerVars>>

\* tx.send(raw_packet).await completes: there is room in the channel
ReaderSend ==
    /\ reader_pc = "send"
    /\ ~rx_dropped
    /\ Len(channel) < ChannelCapacity
    /\ channel' = Append(channel, reader_packet[1])
    /\ reader_packet' = None
    /\ reader_pc' = "read"
    /\ UNCHANGED <<ConfigVars, now, produced, rx_dropped, ConsumerVars>>

\* tx.send(raw_packet).await is Err: the receiver is gone
ReaderSendClosed ==
    /\ reader_pc = "send"
    /\ rx_dropped
    /\ reader_packet' = None
    /\ reader_pc' = "done"
    /\ UNCHANGED <<ConfigVars, now, produced, channel, rx_dropped, ConsumerVars>>

CurrentCtx == Ctx(known_ports, session_manager, tp_parser, tcp_flow, messages)

\* where main goes after process_raw_packet(..)?
AfterPacket(outcome) ==
    CASE outcome = "ok" -> "loop"
      [] outcome = "err" -> "failed"
      [] outcome = "panic" -> "panicked"

\* packet_rx.recv().await yields Some(raw_packet): one turn of the while loop
MainRecv ==
    /\ main_pc = "loop"
    /\ channel # <<>>
    /\ handed' = Append(handed, Head(channel))
    /\ \E victim \in Victims(tcp_flow, now) :
          \E r \in {process_raw_packet(Head(channel), SdPort, target_vlan, CurrentCtx,
                                      now, overflow_checks, victim)} :
              /\ known_ports' = r.ctx.known_ports
              /\ session_manager' = r.ctx.session_manager
              /\ tp_parser' = r.ctx.tp_parser
              /\ tcp_flow' = r.ctx.tcp_flow
              /\ messages' = r.ctx.messages
              /\ main_pc' = AfterPacket(r.outcome)
              /\ rx_dropped' = (r.outcome # "ok")
              /\ channel' = IF r.outcome = "ok" THEN Tail(channel) ELSE <<>>
    /\ UNCHANGED <<ConfigVars, now, produced, reader_pc, reader_packet, swept,
                   exported, result, calls>>

\* packet_rx.recv().await yields None: the channel is empty and the sender dropped
MainRecvNone ==
    /\ main_pc = "loop"
    /\ channel = <<>>
    /\ reader_pc = "done"
    /\ main_pc' = "sweep"
    /\ UNCHANGED <<ConfigVars, now, produced, reader_pc, reader_packet, channel,
                   rx_dropped, handed, known_ports, session_manager, tp_parser,
                   tcp_flow, messages, swept, exported, result, calls>>

RECURSIVE Requests(_)
Requests(pairs) ==
    IF pairs = <<>> THEN <<>> ELSE <<Head(pairs).request>> \o Requests(Tail(pairs))

\* session_manager.cleanup_expired_sessions() and the loop over timed_out
MainSweep ==
    /\ main_pc = "sweep"
    /\ \E order \in Orders(Expired(session_manager, now)) :
          \E r \in {cleanup_expired_sessions(session_manager, now, order)} :
          /\ session_manager' = r.self
          /\ messages' = messages \o Requests(r.result)
    /\ swept' = TRUE
    /\ main_pc' = "export"
    /\ UNCHANGED <<ConfigVars, now, produced, reader_pc, reader_packet, channel,
                   rx_dropped, handed, known_ports, tp_parser, tcp_flow, exported,
                   result, calls>>

\* exporter.export(&formatted) and the return from main
MainExport ==
    /\ main_pc = "export"
    /\ exported' = Some(messages)
    /\ main_pc' = "done"
    /\ rx_dropped' = TRUE
    /\ UNCHANGED <<ConfigVars, now, produced, reader_pc, reader_packet, channel,
                   handed, known_ports, session_manager, tp_parser, tcp_flow,
                   messages, swept, result, calls>>

\* time passes
Tick ==
    /\ now < MaxTime
    /\ main_pc \in {"loop", "sweep"}
    /\ now' = now + 1
    /\ UNCHANGED <<ConfigVars, produced, reader_pc, reader_packet, channel,
                   rx_dropped, ConsumerVars>>

Next ==
    \/ ReaderRead
    \/ ReaderEof
    \/ ReaderSend
    \/ ReaderSendClosed
    \/ MainRecv
    \/ MainRecvNone
    \/ MainSweep
    \/ MainExport
    \/ Tick

Spec == Init /\ [][Next]_vars

---------------------------------------------------------------------------
(* The same program under fair scheduling: the tokio runtime polls the     *)
(* reader task and the main task again and again, so neither is left with  *)
(* a step it can take. Time passing is under no such obligation.           *)

Reader == ReaderRead \/ ReaderEof \/ ReaderSend \/ ReaderSendClosed

MainLeaves == MainRecvNone \/ MainSweep \/ MainExport

\* WF_vars(MainRecv) with its ENABLED written out: process_raw_packet returns
\* or fails for every frame, so MainRecv can be taken exactly when main is in
\* its loop and the channel holds a frame
FairMainRecv ==
    []<>(~(main_pc = "loop" /\ channel # <<>>)) \/ []<><<MainRecv>>_vars

FairSpec == Spec /\ WF_vars(Reader) /\ WF_vars(MainLeaves) /\ FairMainRecv

---------------------------------------------------------------------------
(* The session manager on its own: add_request, add_response and           *)
(* cleanup_expired_sessions called in any order with any message.          *)

\* the (client_id, session_id) of the messages that are passed in
SessionIds == {<<1, 1>>, <<1, 2>>, <<2, 1>>}
MaxPending == 3

\* message-type bytes: Request, which main passes to add_request; Response,
\* Error and Notification for add_response
RequestTypes == {0}
ResponseTypes == {128, 129, 2}

SessionMessage(client_id, session_id, type_byte) ==
    create_someip_message(0, IpA, IpB, SdPort, SdPort,
        [service_id |-> 4660, method_id |-> 1, length |-> 8,
         client_id |-> client_id, session_id |-> session_id,
         protocol_version |-> 1, interface_version |-> 1,
         message_type |-> parse_message_type(type_byte),
         return_code |-> parse_return_code(0)],
        <<>>)

SessionMessages(types) ==
    { SessionMessage(id[1], id[2], ty) : id \in SessionIds, ty \in types }

\* what a call returned: the operation, Ok/Err and the pairs
Returned(op, status, pairs) == Some([op |-> op, status |-> status, pairs |-> pairs])

SessionInit ==
    /\ capture_family = "payload"
    /\ overflow_checks = TRUE
    /\ target_vlan = None
    /\ now = 0
    /\ produced = <<>>
    /\ reader_pc = "done"
    /\ reader_packet = None
    /\ channel = <<>>
    /\ rx_dropped = TRUE
    /\ main_pc = "done"
    /\ handed = <<>>
    /\ known_ports = {SdPort}
    /\ session_manager = SessionManager_new(RequestTimeout, MaxPairs)
    /\ tp_parser = TPParser_new(TpTimeout)
    /\ tcp_flow = TcpFlowController_new(MaxConnections, SegmentTimeout, ConnectionTimeout)
    /\ messages = <<>>
    /\ swept = FALSE
    /\ exported = None
    /\ result = None
    /\ calls = <<>>

SessionFrame == <<ConfigVars, produced, reader_pc, reader_packet, channel, rx_dropped,
                  main_pc, handed, known_ports, tp_parser, tcp_flow, messages, swept,
                  exported, calls>>

CallAddRequest ==
    /\ Len(session_manager.pending_responses) < MaxPending
    /\ \E message \in SessionMessages(RequestTypes) :
          /\ session_manager' = add_request(session_manager, message, now)
          /\ result' = Returned("add_request", "ok", <<>>)
    /\ UNCHANGED <<SessionFrame, now>>

CallAddResponse ==
    /\ \E message \in SessionMessages(ResponseTypes) :
          \E r \in {add_response(session_manager, message)} :
              /\ session_manager' = r.self
              /\ result' = Returned("add_response",
                                    IF r.result = "err" THEN "err" ELSE "ok", r.pair)
    /\ UNCHANGED <<SessionFrame, now>>

CallCleanup ==
    /\ \E order \in Orders(Expired(session_manager, now)) :
          \E r \in {cleanup_expired_sessions(session_manager, now, order)} :
              /\ session_manager' = r.self
              /\ result' = Returned("cleanup_expired_sessions", "ok", r.result)
    /\ UNCHANGED <<SessionFrame, now>>

SessionTick ==
    /\ now < MaxTime
    /\ now' = now + 1
    /\ UNCHANGED <<SessionFrame, session_manager, result>>

SessionNext ==
    \/ CallAddRequest
    \/ CallAddResponse
    \/ CallCleanup
    \/ SessionTick

SessionSpec == SessionInit /\ [][SessionNext]_vars

---------------------------------------------------------------------------
(* The session manager filled past its capacity: add_request and            *)
(* add_response on MaxPairs + 2 keys, with the calls made kept in `calls`.   *)

CapacityIds == {<<client_id, 1>> : client_id \in 1..(MaxPairs + 2)}

CapacityMessages(types) ==
    { SessionMessage(id[1], id[2], ty) : id \in CapacityIds, ty \in types }

\* one call on a component: the operation and its argument
Call(op, argument) == [op |-> op, argument |-> argument]

CapacityInit == SessionInit

CapacityFrame == <<ConfigVars, now, produced, reader_pc, reader_packet, channel,
                   rx_dropped, main_pc, handed, known_ports, tp_parser, tcp_flow,
                   messages, swept, exported>>

CapacityAddRequest ==
    /\ Len(calls) < MaxPairs + 2
    /\ \E message \in CapacityMessages(RequestTypes) :
          /\ session_manager' = add_request(session_manager, message, now)
          /\ result' = Returned("add_request", "ok", <<>>)
          /\ calls' = Append(calls, Call("add_request", message))
    /\ UNCHANGED CapacityFrame

CapacityAddResponse ==
    /\ Len(calls) < MaxPairs + 2
    /\ \E message \in CapacityMessages({128, 2}) :
          \E r \in {add_response(session_manager, message)} :
              /\ session_manager' = r.self
              /\ result' = Returned("add_response",
                                    IF r.result = "err" THEN "err" ELSE "ok", r.pair)
              /\ calls' = Append(calls, Call("add_response", message))
    /\ UNCHANGED CapacityFrame

CapacityNext ==
    \/ CapacityAddRequest
    \/ CapacityAddResponse

CapacitySpec == CapacityInit /\ [][CapacityNext]_vars

---------------------------------------------------------------------------
(* The TP reassembler alone: TP payloads of one key go through              *)
(* parse_tp_segment and process_segment, as in process_raw_packet's TP      *)
(* branch, with the fragments handed in kept in `calls`.                    *)

FragmentLen == 2    \* data bytes per fragment
MaxCalls == 3       \* fragments handed in per run

\* the SomeIP header of a TP fragment of key (0x1234, 1, 3)
TpHeader(length) == parse_someip_header(SomeIp(4660, 1, length, 1, 3, 34, <<>>)).header

\* the bytes after the SomeIP header: flags and offset in 3 bytes for a first
\* fragment, in 4 bytes for a later one, then the data
TpBody(is_first, is_last, offset, data) ==
    LET flags == (IF is_first THEN 128 ELSE 0) + (IF is_last THEN 64 ELSE 0) IN
    IF is_first
    THEN <<flags + offset \div 65536, (offset \div 256) % 256, offset % 256>> \o data
    ELSE <<flags + offset \div 16777216, (offset \div 65536) % 256,
           (offset \div 256) % 256, offset % 256>> \o data

\* the data of the fragment at `offset`: byte i of the message has value i
FragmentData(offset) == [i \in 1..FragmentLen |-> (offset + i) % 256]

TpOffsets == {0, FragmentLen, 2 * FragmentLen}

\* header.length of a message of two and of three fragments
TpLengths == {8 + 2 * FragmentLen, 8 + 3 * FragmentLen}

TpInput(length, is_first, is_last, offset) ==
    [header |-> TpHeader(length),
     body |-> TpBody(is_first, is_last, offset, FragmentData(offset))]

TpInputs ==
    { TpInput(length, TRUE, FALSE, offset) : length \in TpLengths, offset \in TpOffsets }
    \cup { TpInput(8 + 3 * FragmentLen, flags[1], flags[2], offset) :
             flags \in {<<TRUE, TRUE>>, <<FALSE, FALSE>>, <<FALSE, TRUE>>},
             offset \in TpOffsets }

TpInit == SessionInit

TpFrame == <<ConfigVars, produced, reader_pc, reader_packet, channel, rx_dropped,
             main_pc, handed, known_ports, session_manager, tcp_flow, messages,
             swept, exported>>

\* the process has not been ended by a panic
TpAlive == IF result = None THEN TRUE ELSE result[1].status # "panic"

\* parse_tp_segment(..)? and tp_parser.process_segment(segment)?
CallProcessSegment ==
    /\ TpAlive
    /\ Len(calls) < MaxCalls
    /\ \E input \in TpInputs :
          \E seg \in {parse_tp_segment(input.body, input.header)} :
              /\ seg.ok
              /\ \E r \in {process_segment(tp_parser, seg.segment, now, overflow_checks)} :
                    /\ tp_parser' = r.self
                    /\ result' = Some([op |-> "process_segment", status |-> r.result,
                                       segment |-> seg.segment, message |-> r.message])
                    /\ calls' = Append(calls, Call("process_segment", seg.segment))
    /\ UNCHANGED <<TpFrame, now>>

TpTick ==
    /\ TpAlive
    /\ now < MaxTime
    /\ now' = now + 1
    /\ UNCHANGED <<TpFrame, tp_parser, result, calls>>

TpNext ==
    \/ CallProcessSegment
    \/ TpTick

TpSpec == TpInit /\ [][TpNext]_vars

---------------------------------------------------------------------------
(* The TCP flow controller alone: decoded TCP packets of one stream, and    *)
(* packets that open other streams, go through process_tcp_packet; the      *)
(* packets, what each call returned and the passing of time are kept in     *)
(* `calls`.                                                                 *)

TcpSegLen == 2        \* data bytes per TCP segment
MaxTcpCalls == 4      \* packets and clock ticks per run
BaseSeq == 1000       \* the sequence number of the stream's first byte
StreamPort == 40000   \* the port of the stream under study

\* the TCPPacketInfo that parse_tcp decodes from a TCP header and payload
TcpPacket(port, seq_num, flag_bits, payload) ==
    parse_tcp(Tcp(port, port, seq_num, 5, flag_bits, payload), TRUE)

\* the sender's bytes from seq_num on: the byte at position p has value p % 256
StreamData(seq_num, len) == [i \in 1..len |-> (seq_num + i - 1) % 256]

\* the bit of a flag in the TCP header's data-offset/flags word, as TCP defines it
WireFlag(flag) ==
    CASE flag = "fin" -> 1
      [] flag = "syn" -> 2
      [] flag = "rst" -> 4
      [] flag = "ack" -> 16

\* the packets of the stream under study
StreamPackets ==
    { TcpPacket(StreamPort, seq_num, WireFlag("ack"), StreamData(seq_num, TcpSegLen)) :
        seq_num \in {BaseSeq, BaseSeq + TcpSegLen, BaseSeq + 2 * TcpSegLen} }
    \cup { TcpPacket(StreamPort, BaseSeq, WireFlag("ack"), <<>>),
           TcpPacket(StreamPort, BaseSeq + TcpSegLen, WireFlag("syn"), <<>>),
           TcpPacket(StreamPort, BaseSeq, WireFlag("syn"), StreamData(BaseSeq + 1, TcpSegLen)),
           TcpPacket(StreamPort, BaseSeq, WireFlag("rst") + WireFlag("ack"), <<>>),
           TcpPacket(StreamPort, BaseSeq, WireFlag("fin") + WireFlag("ack"), <<>>) }

\* one data packet for each of max_connections other streams
OtherPackets ==
    { TcpPacket(StreamPort + i, BaseSeq, WireFlag("ack"), StreamData(BaseSeq, TcpSegLen)) :
        i \in 1..MaxConnections }

TcpPackets == StreamPackets \cup OtherPackets

\* the TcpConnectionKey of a packet from IpA to IpB
ConnectionKey(tcp_packet) == <<IpA, tcp_packet.src_port, IpB, tcp_packet.dst_port>>

\* one entry of `calls`: a packet with what its call returned and the stream
\* its call evicted for capacity, or a clock tick
TcpCall(op, argument, returned, victim) ==
    [op |-> op, argument |-> argument, returned |-> returned, victim |-> victim]

TcpInit == SessionInit

TcpRest == <<ConfigVars, produced, reader_pc, reader_packet, channel, rx_dropped,
             main_pc, handed, known_ports, session_manager, tp_parser, messages,
             swept, exported>>

\* tcp_flow.process_tcp_packet(&src_ip, &dst_ip, &tcp, tcp.payload)
CallProcessTcpPacket ==
    /\ Len(calls) < MaxTcpCalls
    /\ \E tcp_packet \in TcpPackets :
          \E victim \in Victims(tcp_flow, now) :
              \E r \in {process_tcp_packet(tcp_flow, IpA, IpB, tcp_packet,
                                           tcp_packet.payload, now, victim)} :
                  /\ tcp_flow' = r.self
                  /\ result' = Some([op |-> "process_tcp_packet", status |-> r.result,
                                     data |-> r.data])
                  /\ calls' = Append(calls, TcpCall("process_tcp_packet", tcp_packet,
                                                    r.data, victim))
    /\ UNCHANGED <<TcpRest, now>>

TcpTick ==
    /\ Len(calls) < MaxTcpCalls
    /\ now < MaxTime
    /\ now' = now + 1
    /\ calls' = Append(calls, TcpCall("tick", None, None, None))
    /\ UNCHANGED <<TcpRest, tcp_flow, result>>

TcpNext ==
    \/ CallProcessTcpPacket
    \/ TcpTick

TcpSpec == TcpInit /\ [][TcpNext]_vars

---------------------------------------------------------------------------
(* The flow controller as a component: process_tcp_packet takes any        *)
(* TCPPacket, so also one whose SYN, FIN or RST field is set. The packets  *)
(* of one stream, their flag fields as the TCP header states them.         *)

\* a TCPPacket whose set flag fields are `flags`
WithFlags(tcp_packet, flags) ==
    [tcp_packet EXCEPT !.flags = [flag \in DOMAIN tcp_packet.flags |-> flag \in flags]]

FlagPacket(seq_num, flags, payload) ==
    WithFlags(TcpPacket(StreamPort, seq_num, 0, payload), flags)

FlowPackets ==
    { FlagPacket(seq_num, {"ack"}, StreamData(seq_num, TcpSegLen)) :
        seq_num \in {BaseSeq, BaseSeq + TcpSegLen, BaseSeq + 2 * TcpSegLen} }
    \cup { FlagPacket(BaseSeq, {"ack"}, <<>>),
           FlagPacket(BaseSeq + 2 * TcpSegLen, {"syn"}, <<>>),
           FlagPacket(BaseSeq, {"rst", "ack"}, <<>>),
           FlagPacket(BaseSeq + TcpSegLen, {"fin", "ack"}, <<>>) }

FlowInit == SessionInit

\* one call of process_tcp_packet(src_ip, dst_ip, &tcp_packet, payload, now)
FlowProcessTcpPacket ==
    /\ Len(calls) < MaxTcpCalls
    /\ \E tcp_packet \in FlowPackets :
       \E victim \in Victims(tcp_flow, now) :
       \E r \in {process_tcp_packet(tcp_flow, IpA, IpB, tcp_packet,
                                    tcp_packet.payload, now, victim)} :
          /\ tcp_flow' = r.self
          /\ result' = Some([op |-> "process_tcp_packet", status |-> r.result,
                             data |-> r.data])
          /\ calls' = Append(calls, TcpCall("process_tcp_packet", tcp_packet,
                                            r.data, victim))
    /\ UNCHANGED <<TcpRest, now>>

FlowNext ==
    \/ FlowProcessTcpPacket
    \/ TcpTick

FlowSpec == FlowInit /\ [][FlowNext]_vars

---------------------------------------------------------------------------
(* The frame decoder as a component: the layer parsers and the SD parser,  *)
(* applied to buffers whose length fields are varied.                      *)

MaxDecodes == 2     \* buffers decoded per run

\* an IPv4 packet with the header's IHL and total length as given
Ipv4With(ihl, total_length, protocol, payload) ==
    <<64 + ihl, 0>> \o U16Bytes(total_length) \o <<0, 0, 0, 0, 64, protocol, 0, 0>>
    \o IpA \o IpB \o payload

\* an SD body whose options-length field is options_length
SdBodyWith(options_length, options) ==
    <<192, 0, 0, 0>> \o U32Bytes(0) \o U32Bytes(options_length) \o options

\* total length below IHL*4, equal to the header, the buffer and beyond it
Ipv4Buffers ==
    { Ethernet(None, 2048, Ipv4With(ihl, total_length, 17, Pad8)) :
        ihl \in {5, 6}, total_length \in {0, 19, 20, 28, 29} }

\* every data offset, on a segment of 20 header bytes and 2 data bytes
TcpBuffers ==
    { Ethernet(None, 2048,
               Ipv4(6, Tcp(SdPort, SdPort, 1000, data_offset, 16, <<170, 187>>))) :
        data_offset \in 0..15 }

\* one endpoint option of 11 bytes, announced as 0, 11, 12 and 20 bytes
SdBuffers ==
    { UdpFrame(None, SdPort, SdPort,
               SomeIp(65535, 33024, 31, 0, 1, 2,
                      SdBodyWith(options_length,
                                 SdOptionBytes(11, 4, Endpoint4Body(LearnedPort))))) :
        options_length \in {0, 11, 12, 20} }

DecoderBuffers == Ipv4Buffers \cup TcpBuffers \cup SdBuffers

\* the parsers process_raw_packet applies to a frame, one layer after the
\* other: "ok" (every layer decoded), "err" or "panic"
DecodeFrame(data, checks) ==
    LET link_layer == parse_link_layer(data) IN
    IF ~link_layer.ok THEN "err"
    ELSE LET network_layer == parse_network_layer(link_layer.payload, link_layer.ethertype) IN
    IF network_layer.panic THEN "panic"
    ELSE IF ~network_layer.ok THEN "err"
    ELSE LET transport_layer == parse_transport_layer(network_layer.payload,
                                    network_layer.protocol, checks) IN
    IF transport_layer.panic THEN "panic"
    ELSE IF ~transport_layer.ok THEN "err"
    ELSE IF transport_layer.kind # "UDP" \/ Len(transport_layer.payload) < 16 THEN "ok"
    ELSE LET header == parse_someip_header(transport_layer.payload).header IN
    IF ~IsSdPacket(transport_layer, header, SdPort) THEN "ok"
    ELSE LET sd == parse_sd_packet(Drop(transport_layer.payload, 16)) IN
    IF sd.panic THEN "panic" ELSE IF ~sd.ok THEN "err" ELSE "ok"

DecodeInit == SessionInit

DecodeRest == <<ConfigVars, now, produced, reader_pc, reader_packet, channel, rx_dropped,
                main_pc, handed, known_ports, session_manager, tp_parser, tcp_flow,
                messages, swept, exported>>

\* one buffer is decoded, by a build with or without overflow checks
CallDecodeFrame ==
    /\ Len(calls) < MaxDecodes
    /\ \E data \in DecoderBuffers, checks \in BOOLEAN :
          /\ result' = Some([op |-> "decode", status |-> DecodeFrame(data, checks)])
          /\ calls' = Append(calls, Call("decode", [data |-> data, checks |-> checks]))
    /\ UNCHANGED DecodeRest

DecodeNext == CallDecodeFrame

DecodeSpec == DecodeInit /\ [][DecodeNext]_vars

---------------------------------------------------------------------------
(* The MSI splitter as a component: parse_msi_packet applied to containers *)
(* of one or two embedded messages whose length fields are varied.         *)

\* an embedded message of 16 header bytes and 2 data bytes that states
\* `length` as its length
Embedded(length) == SomeIp(4660, 1, length, 1, 2, 2, <<170, 187>>)

\* the stated lengths: nothing, less than a header, the header, the message
\* and more than the container holds
EmbeddedLengths == {0, 8, 16, 18, 40}

MsiContainers ==
    { Embedded(a) : a \in EmbeddedLengths }
    \cup { Embedded(a) \o Embedded(b) : a, b \in EmbeddedLengths }
    \cup { Embedded(a) \o <<1, 2, 3>> : a \in EmbeddedLengths }

MsiInit == SessionInit

\* one call of parse_msi_packet(&udp.payload[16..])
CallParseMsi ==
    /\ Len(calls) < MaxDecodes
    /\ \E payload \in MsiContainers :
       \E r \in {parse_msi_packet(payload)} :
          /\ result' = Some([op |-> "parse_msi_packet",
                             status |-> IF r.panic THEN "panic"
                                        ELSE IF r.ok THEN "ok" ELSE "err",
                             messages |-> IF r.ok THEN r.messages ELSE <<>>])
          /\ calls' = Append(calls, Call("parse_msi_packet", payload))
    /\ UNCHANGED DecodeRest

MsiNext == CallParseMsi

MsiSpec == MsiInit /\ [][MsiNext]_vars

---------------------------------------------------------------------------
(* Properties.                                                             *)

IsPrefix(s, t) == Len(s) <= Len(t) /\ SubSeq(t, 1, Len(s)) = s

\* main takes a frame from the channel in this step
TakesFrame == main_pc = "loop" /\ channel # <<>> /\ handed' = Append(handed, Head(channel))

\* the decoder state and the output are as they were, and main is still in
\* its loop
NoEffect ==
    /\ UNCHANGED <<known_ports, session_manager, tp_parser, tcp_flow, messages>>
    /\ main_pc' = "loop"

\* C1: a frame that fails to decode never ends the run: main is never left
\* with the error of a frame.
C1_DecodeErrorNonFatal == main_pc # "failed"

\* C2: a run that has ended, by the export or by the error of a frame, has
\* executed the expiry sweep.
C2_SweepBeforeEnd == main_pc \in {"done", "failed"} => swept

\* C3: the channel never holds more than its capacity; the frames handed to
\* the decoder are, in order, the first frames read from the capture; while
\* the receiver lives every frame read is handed, queued or with the reader;
\* and a loop ended by recv() = None has handed every frame.
C3_BoundedFifo ==
    /\ Len(channel) <= ChannelCapacity
    /\ IsPrefix(handed, produced)
    /\ ~rx_dropped => produced = handed \o channel \o reader_packet
    /\ main_pc \in {"sweep", "export", "done"} => handed = produced

\* the queue is full and the reader is suspended in send with the last frame
C3_Witness ==
    /\ Len(channel) = ChannelCapacity
    /\ reader_pc = "send"
    /\ ~rx_dropped
    /\ Len(produced) = MaxFrames

\* C4: under fair scheduling every run comes to a state where the reader
\* task has ended and main has left its loop, and main goes on to the sweep
\* only when the reader has ended and the channel is drained.
C4_Terminates ==
    /\ <>(reader_pc = "done" /\ main_pc # "loop")
    /\ [](main_pc = "sweep" => (reader_pc = "done" /\ channel = <<>>))

\* the reader has ended at the end of the file and main has drained a
\* capture longer than the queue
C4_Witness ==
    /\ reader_pc = "done"
    /\ main_pc = "sweep"
    /\ Len(handed) = MaxFrames

\* the message went through no TP reassembly: bit 0x20 of its type is clear
NotTp(message) == ~Bit(as_u8(message.header.message_type), 5)

\* C5: every message of the output that did not go through TP reassembly has
\* a payload of header.length - 8 bytes.
C5_PayloadLength ==
    \A i \in 1..Len(messages) :
        NotTp(messages[i]) => Len(messages[i].payload) = messages[i].header.length - 8

\* C6: every message in the output or held by the session manager comes from
\* a header whose length is at least 8.
C6_LengthAtLeast8 ==
    /\ \A i \in 1..Len(messages) : messages[i].header.length >= 8
    /\ \A key \in DOMAIN session_manager.sessions :
          session_manager.sessions[key].request.header.length >= 8

\* the SD packet that main parses out of a frame, if it does
SdPacketOf(data) ==
    LET link_layer == parse_link_layer(data) IN
    IF ~link_layer.ok \/ VlanSkips(target_vlan, link_layer) THEN None
    ELSE LET network_layer == parse_network_layer(link_layer.payload, link_layer.ethertype) IN
    IF ~network_layer.ok THEN None
    ELSE LET udp == parse_transport_layer(network_layer.payload, network_layer.protocol,
                                          overflow_checks) IN
    IF ~udp.ok \/ udp.kind # "UDP" \/ Len(udp.payload) < 16 THEN None
    ELSE LET header == parse_someip_header(udp.payload).header IN
    IF ~(SdPort \in {udp.src_port, udp.dst_port}
         /\ header.service_id = 65535 /\ header.method_id = 33024) THEN None
    ELSE LET sd == parse_sd_packet(Drop(udp.payload, 16)) IN
    IF sd.ok THEN Some(sd.sd_packet) ELSE None

PortOptionKinds ==
    {"Ipv4Endpoint", "Ipv4Multicast", "Ipv4SDEndpoint",
     "Ipv6Endpoint", "Ipv6Multicast", "Ipv6SDEndpoint"}

\* the ports of the Endpoint, Multicast and SD-Endpoint options of a frame
AnnouncedPorts(data) ==
    LET sd == SdPacketOf(data) IN
    IF sd = None THEN {}
    ELSE { sd[1].options[i].port :
             i \in { j \in 1..Len(sd[1].options) :
                       sd[1].options[j].kind \in PortOptionKinds } }

\* C7: the known ports are the SD port and the ports of the Endpoint,
\* Multicast and SD-Endpoint options of the SD packets handed so far, and
\* nothing else.
C7_KnownPortsExact ==
    known_ports = {SdPort} \cup UNION { AnnouncedPorts(handed[i].data) : i \in 1..Len(handed) }

\* an SD frame was read, then a datagram with an SD header on another port:
\* all six option kinds have taught their port, the load-balancing,
\* configuration and unknown options and the other datagram none
C7_Witness ==
    /\ \E i, j \in 1..Len(handed) :
          /\ i < j
          /\ handed[i].data = FrameSdPadded
          /\ handed[j].data = FrameSdOffPort
    /\ known_ports = {SdPort, LearnedPort, MulticastPort, SdEndpointPort,
                      Endpoint6Port, Multicast6Port, SdEndpoint6Port}

\* the UDP or TCP segment of a frame, if the frame decodes that far
SegmentOf(data) ==
    LET link_layer == parse_link_layer(data) IN
    IF ~link_layer.ok THEN None
    ELSE LET network_layer == parse_network_layer(link_layer.payload, link_layer.ethertype) IN
    IF ~network_layer.ok THEN None
    ELSE LET segment == parse_transport_layer(network_layer.payload,
                                              network_layer.protocol, overflow_checks) IN
    IF segment.ok THEN Some(segment) ELSE None

NeitherPortKnown(data) ==
    LET segment == SegmentOf(data) IN
    /\ segment # None
    /\ segment[1].src_port \notin known_ports
    /\ segment[1].dst_port \notin known_ports

\* C8: taking a frame whose UDP or TCP segment has neither port in the known
\* ports changes no session, TP or TCP state, teaches no port and adds
\* nothing to the output.
C8_UnknownPortDropped ==
    [][(TakesFrame /\ NeitherPortKnown(Head(channel).data)) => NoEffect]_vars

\* after a port was learned, a UDP datagram and a TCP segment on another
\* port were taken and dropped
C8_Witness ==
    /\ LearnedPort \in known_ports
    /\ \E i, j, k \in 1..Len(handed) :
          /\ i < j /\ i < k
          /\ handed[i].data = FrameSdPadded
          /\ handed[j].data = FrameNotification(None, OtherPort)
          /\ handed[k].data = FrameTcp(OtherPort)
    /\ main_pc = "loop"

\* an Ethernet frame whose VLAN id is not the configured one; an untagged
\* frame has none
VlanMismatch(data) ==
    LET link_layer == parse_link_layer(data) IN
    /\ target_vlan # None
    /\ link_layer.ok
    /\ link_layer.kind = "Ethernet"
    /\ VlanId(link_layer) # target_vlan

\* C9: with a VLAN filter configured, taking an Ethernet frame whose VLAN id
\* is not the configured one, or that has no tag, changes no state and adds
\* nothing to the output.
C9_VlanFilterDrops ==
    [][(TakesFrame /\ VlanMismatch(Head(channel).data)) => NoEffect]_vars

\* C10: the request and the response of every pair that add_response returns
\* have the same service id, client id and session id.
C10_PairKeysMatch ==
    (result # None /\ result[1].op = "add_response") =>
        \A i \in 1..Len(result[1].pairs) :
            LET pair == result[1].pairs[i] IN
            /\ pair.response # None
            /\ pair.request.header.service_id = pair.response[1].header.service_id
            /\ pair.request.header.client_id = pair.response[1].header.client_id
            /\ pair.request.header.session_id = pair.response[1].header.session_id

\* add_response has returned a pair while another request was stored
C10_Witness ==
    /\ result # None
    /\ result[1].op = "add_response"
    /\ result[1].pairs # <<>>
    /\ Cardinality(DOMAIN session_manager.sessions) >= 2

\* the keys queued as awaiting a response
PendingKeys(self) == SeqToSet(self.pending_responses)

\* the keys whose pair has a response attached
CompletedKeys(self) ==
    {key \in DOMAIN self.sessions : self.sessions[key].response # None}

\* C11: a session key is in at most one of the states pending, completed and
\* expired: every key in the pending queue has a pair, and that pair has no
\* response attached.
C11_StatesExclusive ==
    /\ PendingKeys(session_manager) \cap CompletedKeys(session_manager) = {}
    /\ PendingKeys(session_manager) \subseteq DOMAIN session_manager.sessions

\* C13: the session manager never holds more pairs than its capacity bound,
\* whether or not the held pairs have a response attached.
C13_WithinCapacity ==
    Cardinality(DOMAIN session_manager.sessions) <= session_manager.max_pairs

\* the pairs a sweep at time t is to return: deadline passed, response absent
DuePairs(self, t) ==
    {key \in DOMAIN self.sessions :
        self.sessions[key].response = None /\ self.sessions[key].timeout <= t}

\* C14: an expiry sweep returns and removes exactly the pairs whose deadline
\* has passed and whose response is absent, each once; every other pair (not
\* yet due, or with a response) stays in the manager unchanged.
C14_SweepExact ==
    [][CallCleanup =>
        LET before == session_manager.sessions
            after == session_manager'.sessions
            due == DuePairs(session_manager, now)
            returned == result'[1].pairs
        IN  /\ DOMAIN after = DOMAIN before \ due
            /\ \A key \in DOMAIN after : after[key] = before[key]
            /\ SeqToSet(returned) = {before[key] : key \in due}
            /\ Len(returned) = Cardinality(due)]_vars

\* a sweep has returned an orphan request while a pair with a response,
\* whose deadline has passed too, stayed
C14_Witness ==
    /\ result # None
    /\ result[1].op = "cleanup_expired_sessions"
    /\ result[1].pairs # <<>>
    /\ \A i \in 1..Len(result[1].pairs) :
          /\ result[1].pairs[i].response = None
          /\ result[1].pairs[i].timeout <= now
    /\ \E key \in DOMAIN session_manager.sessions :
          /\ session_manager.sessions[key].response # None
          /\ session_manager.sessions[key].timeout <= now

\* the calls made so far are n add_request calls with pairwise distinct keys
DistinctRequests(n) ==
    /\ Len(calls) = n
    /\ \A i \in 1..n : calls[i].op = "add_request"
    /\ \A i, j \in 1..n :
          i # j => SessionKey(calls[i].argument) # SessionKey(calls[j].argument)

\* C12: with capacity N, after N+1 add_request calls with pairwise distinct
\* keys on a new manager and no other call, exactly N pairs are held and N
\* keys are pending, the first-inserted key is gone and the newest-inserted
\* key is present with its request.
C12_EvictsOldest ==
    DistinctRequests(session_manager.max_pairs + 1) =>
        LET first == SessionKey(calls[1].argument)
            newest == SessionKey(calls[Len(calls)].argument)
        IN  /\ Cardinality(DOMAIN session_manager.sessions) = session_manager.max_pairs
            /\ Len(session_manager.pending_responses) = session_manager.max_pairs
            /\ first \notin DOMAIN session_manager.sessions
            /\ first \notin PendingKeys(session_manager)
            /\ newest \in DOMAIN session_manager.sessions
            /\ session_manager.sessions[newest].request = calls[Len(calls)].argument
            /\ session_manager.sessions[newest].response = None

\* capacity + 1 distinct keys were requested and the first one is gone
C12_Witness ==
    /\ DistinctRequests(session_manager.max_pairs + 1)
    /\ SessionKey(calls[1].argument) \notin DOMAIN session_manager.sessions

\* the frames that carry a plain UDP Request
RequestFrames == {FrameRequest, FrameRequestExact}

\* C15: a plain UDP Request that main takes is stored and adds nothing to the
\* output; a Response that matches a stored request adds that request and
\* then the response at the end of the output, so a Request followed by its
\* Response gives two records, the Request first.
C15_PairAtResponse ==
    [][(TakesFrame /\ target_vlan = None) =>
        LET packet == Head(channel)
            n == Len(messages)
        IN  /\ packet.data \in RequestFrames =>
                  /\ main_pc' = "loop"
                  /\ messages' = messages
                  /\ \E key \in DOMAIN session_manager'.sessions :
                        /\ session_manager'.sessions[key].request.timestamp = packet.timestamp
                        /\ session_manager'.sessions[key].response = None
            /\ (packet.data = FrameResponse /\ DOMAIN session_manager.sessions # {}) =>
                  /\ main_pc' = "loop"
                  /\ Len(messages') = n + 2
                  /\ IsPrefix(messages, messages')
                  /\ \E key \in DOMAIN session_manager.sessions :
                        /\ messages'[n + 1] = session_manager.sessions[key].request
                        /\ SessionKey(messages'[n + 2]) = key
                  /\ messages'[n + 2].timestamp = packet.timestamp
                  /\ messages'[n + 2].header.message_type.variant = "Response"]_vars

\* C16: the output preserves capture order: of two messages in the output,
\* the one captured first comes first, whatever the message types.
C16_CaptureOrder ==
    \A i, j \in 1..Len(messages) :
        i < j => messages[i].timestamp <= messages[j].timestamp

\* the TP key of a message header
TpKey(header) == <<header.service_id, header.client_id, header.session_id>>

\* C17: immediately after the reassembler emits a message, no pending state
\* for the key of that message remains, however the emission happened.
C17_EmissionDiscardsState ==
    (result # None /\ result[1].op = "process_segment" /\ result[1].status = "some") =>
        TpKey(result[1].message[1].header) \notin DOMAIN tp_parser.pending_messages

\* among the first m fragments handed in, the latest first fragment was also
\* a last one
LatestFirstIsSingle(m) ==
    \E i \in 1..m :
        /\ calls[i].argument.is_first
        /\ calls[i].argument.is_last
        /\ \A j \in (i + 1)..m : ~calls[j].argument.is_first

\* a later fragment of a single-fragment message was dropped: nothing was
\* emitted and no state holds it
LaterFragmentDropped(segment) ==
    /\ result[1].status = "none"
    /\ TpKey(segment.header) \notin DOMAIN tp_parser.pending_messages

\* C18: a fragment that is both first and last gives one message whose
\* payload is the fragment's bytes and allocates no state; a non-first
\* fragment that follows it, with no first fragment in between, is dropped.
C18_SingleFragment ==
    (result # None /\ result[1].op = "process_segment") =>
        LET n == Len(calls)
            segment == calls[n].argument
        IN  /\ (segment.is_first /\ segment.is_last) =>
                  /\ result[1].status = "some"
                  /\ result[1].message[1].payload = segment.payload
                  /\ result[1].message[1].header = segment.header
                  /\ tp_parser.pending_messages = EmptyMap
            /\ (~segment.is_first /\ LatestFirstIsSingle(n - 1)) =>
                  LaterFragmentDropped(segment)

\* the fragment that parse_tp_segment makes of an input
FragmentOf(length, is_first, is_last, offset) ==
    LET input == TpInput(length, is_first, is_last, offset)
    IN  parse_tp_segment(input.body, input.header).segment

\* the fragments handed in so far
Arguments == [i \in 1..Len(calls) |-> calls[i].argument]

\* C19: of three contiguous fragments handed in in the order first, last,
\* middle, the first two give no message and the middle one gives one
\* message whose payload is the bytes of the three in offset order.
C19_GapClosedEmitsOnce ==
    \A length \in TpLengths :
        LET first == FragmentOf(length, TRUE, FALSE, 0)
            middle == FragmentOf(length, FALSE, FALSE, FragmentLen)
            last == FragmentOf(length, FALSE, TRUE, 2 * FragmentLen)
        IN  /\ Arguments \in {<<first>>, <<first, last>>} => result[1].status = "none"
            /\ Arguments = <<first, last, middle>> =>
                  /\ result[1].status = "some"
                  /\ result[1].message[1].payload =
                        FragmentData(0) \o FragmentData(FragmentLen)
                        \o FragmentData(2 * FragmentLen)

\* every byte of [0, total_size) lies in one of the fragments
Covered(segments, total_size) ==
    \A byte \in 0..(total_size - 1) :
        \E offset \in DOMAIN segments :
            offset <= byte /\ byte < offset + Len(segments[offset])

\* the fragments stored for the key of `segment` once it is stored, and the
\* total size then
StoredWith(self, segment) ==
    LET key == TpKey(segment.header)
        len == Len(segment.payload)
    IN  IF segment.is_first
        THEN [segments |-> MapInsert(EmptyMap, segment.offset, segment.payload),
              total_size |-> segment.offset + len]
        ELSE [segments |-> MapInsert(self.pending_messages[key].segments,
                                     segment.offset, segment.payload),
              total_size |-> IF segment.is_last THEN segment.offset + len
                             ELSE self.pending_messages[key].total_size[1]]

\* C20: whenever the reassembler emits a message, the fragments stored for
\* its key cover every byte of [0, total_size).
C20_EmissionCovered ==
    [][(calls' # calls /\ result'[1].status = "some") =>
        LET stored == StoredWith(tp_parser, result'[1].segment)
        IN  Covered(stored.segments, stored.total_size)]_vars

\* the key of the stream under study
StreamKey == <<IpA, StreamPort, IpB, StreamPort>>

\* the entries of `calls` that are packets of the stream under study
RECURSIVE StreamCalls(_)
StreamCalls(entries) ==
    IF entries = <<>> THEN <<>>
    ELSE LET rest == StreamCalls(Tail(entries)) IN
         IF Head(entries).op = "process_tcp_packet"
            /\ ConnectionKey(Head(entries).argument) = StreamKey
         THEN <<Head(entries)>> \o rest ELSE rest

\* the chunks the calls returned, one after the other
RECURSIVE Emitted(_)
Emitted(entries) ==
    IF entries = <<>> THEN <<>>
    ELSE (IF Head(entries).returned = None THEN <<>> ELSE Head(entries).returned[1])
         \o Emitted(Tail(entries))

\* the expected sequence number a stream starts with, from its first packet
InitialExpected(tcp_packet) ==
    IF tcp_packet.flags["syn"] THEN tcp_packet.seq_num + 1 ELSE tcp_packet.seq_num

\* C21: the chunks emitted for a TCP stream, one after the other, are at
\* every moment a prefix of the sender's bytes from the stream's initial
\* expected sequence number on.
C21_EmittedIsPrefix ==
    LET stream_calls == StreamCalls(calls)
        emitted == Emitted(stream_calls)
    IN  stream_calls # <<>> =>
            emitted = StreamData(InitialExpected(stream_calls[1].argument), Len(emitted))

\* where the data of a packet ends
EndSeq(tcp_packet) == tcp_packet.seq_num + Len(tcp_packet.payload)

\* `calls` holds only data packets of the stream under study, each with the
\* sender's bytes from its sequence number on, handed in with no clock tick
\* and no eviction in between, whose segments are contiguous and do not
\* overlap, the first to arrive being the lowest
ContiguousRun ==
    /\ calls # <<>>
    /\ \A i \in 1..Len(calls) :
          /\ calls[i].op = "process_tcp_packet"
          /\ calls[i].victim = None
          /\ ConnectionKey(calls[i].argument) = StreamKey
          /\ calls[i].argument.payload # <<>>
          /\ calls[i].argument.payload =
                StreamData(calls[i].argument.seq_num, Len(calls[i].argument.payload))
    /\ \A i \in 1..Len(calls) :
          /\ calls[i].argument.seq_num >= calls[1].argument.seq_num
          /\ i = 1 \/ \E j \in 1..Len(calls) :
                         EndSeq(calls[j].argument) = calls[i].argument.seq_num
    /\ \A i, j \in 1..Len(calls) :
          i # j => \/ EndSeq(calls[i].argument) <= calls[j].argument.seq_num
                   \/ EndSeq(calls[j].argument) <= calls[i].argument.seq_num

RECURSIVE TotalLength(_)
TotalLength(entries) ==
    IF entries = <<>> THEN 0
    ELSE Len(Head(entries).argument.payload) + TotalLength(Tail(entries))

\* C22: when contiguous, non-overlapping segments of one stream have all
\* arrived, the lowest first and the others in any order, with no timeout or
\* eviction in between, all their bytes have been emitted in sequence order
\* and nothing is held.
C22_ContiguousDelivered ==
    ContiguousRun =>
        /\ Emitted(calls) = StreamData(calls[1].argument.seq_num, TotalLength(calls))
        /\ tcp_flow.connections[StreamKey].segments = <<>>
        /\ tcp_flow.connections[StreamKey].expected_seq =
              calls[1].argument.seq_num + TotalLength(calls)

\* three segments arrived in the order lowest, highest, middle: the last one
\* filled the gap and was returned together with the held one
C22_Witness ==
    /\ ContiguousRun
    /\ Len(calls) = 3
    /\ calls[2].argument.seq_num > calls[3].argument.seq_num
    /\ calls[2].returned = None
    /\ calls[3].returned = Some(calls[3].argument.payload \o calls[2].argument.payload)

\* the step hands a packet to process_tcp_packet
TakesTcpPacket ==
    /\ calls' # calls
    /\ calls'[Len(calls')].op = "process_tcp_packet"

\* the packet of the step belongs to a tracked stream and its sequence number
\* is below what the stream expects
BelowExpected(tcp_packet) ==
    /\ ConnectionKey(tcp_packet) \in DOMAIN tcp_flow.connections
    /\ tcp_packet.seq_num < tcp_flow.connections[ConnectionKey(tcp_packet)].expected_seq

\* C23: a packet of a tracked stream whose sequence number is below the
\* stream's expected sequence number gives no chunk and leaves the stream's
\* expected sequence number and hold-queue as they were, also when the
\* connection table is full.
C23_BelowExpectedDiscarded ==
    [][(TakesTcpPacket /\ BelowExpected(calls'[Len(calls')].argument)) =>
        LET key == ConnectionKey(calls'[Len(calls')].argument) IN
        /\ calls'[Len(calls')].returned = None
        /\ key \in DOMAIN tcp_flow'.connections
        /\ tcp_flow'.connections[key].expected_seq = tcp_flow.connections[key].expected_seq
        /\ tcp_flow'.connections[key].segments = tcp_flow.connections[key].segments]_vars


\* C24: taking the SD packet whose IPv4 Endpoint option announces port 50001
\* with a length field of 7 (the body after the four option-header bytes)
\* leaves main in its loop with port 50001 among the known ports.
C24_BodyLengthOptionLearned ==
    [][(TakesFrame /\ Head(channel).data = FrameSdBodyLength) =>
        /\ main_pc' = "loop"
        /\ LearnedPort \in known_ports']_vars

\* the stream's packet that carries the RST bit on the wire
RstPacket == TcpPacket(StreamPort, BaseSeq, WireFlag("rst") + WireFlag("ack"), <<>>)

\* C25: processing a packet with the RST flag for a stream leaves the stream
\* closed and its hold-queue empty, so that nothing held before the RST can
\* be emitted later.
C25_RstEmptiesHoldQueue ==
    [][(TakesTcpPacket /\ calls'[Len(calls')].argument = RstPacket) =>
        /\ StreamKey \in DOMAIN tcp_flow'.connections
        /\ tcp_flow'.connections[StreamKey].closed
        /\ tcp_flow'.connections[StreamKey].segments = <<>>]_vars

\* the stream's packets that carry the SYN bit on the wire
SynPackets ==
    { TcpPacket(StreamPort, BaseSeq + TcpSegLen, WireFlag("syn"), <<>>),
      TcpPacket(StreamPort, BaseSeq, WireFlag("syn"), StreamData(BaseSeq + 1, TcpSegLen)) }

\* the hold-queue has a segment of these bytes
Held(stream, data) ==
    \E i \in 1..Len(stream.segments) : stream.segments[i].data = data

\* C26: a packet with the SYN flag moves the stream's expected sequence
\* number to seq + 1; its payload, if it has one, is then admitted as data:
\* emitted in order, the expected sequence number moving on by its length,
\* or held.
C26_SynAdvancesAndAdmits ==
    [][(TakesTcpPacket /\ calls'[Len(calls')].argument \in SynPackets) =>
        LET tcp_packet == calls'[Len(calls')].argument
            returned == calls'[Len(calls')].returned
            stream == tcp_flow'.connections[StreamKey]
        IN  /\ StreamKey \in DOMAIN tcp_flow'.connections
            /\ tcp_packet.payload = <<>> =>
                  /\ returned = None
                  /\ stream.expected_seq = tcp_packet.seq_num + 1
            /\ tcp_packet.payload # <<>> =>
                  \/ /\ returned # None
                     /\ IsPrefix(tcp_packet.payload, returned[1])
                     /\ stream.expected_seq = tcp_packet.seq_num + 1 + Len(returned[1])
                  \/ /\ returned = None
                     /\ Held(stream, tcp_packet.payload)
                     /\ stream.expected_seq = tcp_packet.seq_num + 1]_vars

\* C27: the number of tracked TCP streams never exceeds max_connections.
C27_ConnectionsBounded ==
    Cardinality(DOMAIN tcp_flow.connections) <= tcp_flow.max_connections

\* the table is full again after a packet of an untracked stream had a
\* stream evicted
C27_Witness ==
    /\ calls # <<>>
    /\ calls[Len(calls)].op = "process_tcp_packet"
    /\ calls[Len(calls)].victim # None
    /\ calls[Len(calls)].victim # ConnectionKey(calls[Len(calls)].argument)
    /\ ConnectionKey(calls[Len(calls)].argument) \in DOMAIN tcp_flow.connections
    /\ Cardinality(DOMAIN tcp_flow.connections) = tcp_flow.max_connections

\* C28: a stream is evicted for capacity only by a packet of a stream that
\* is not tracked, and the evicted stream is then one of least-recent
\* activity; a packet of a tracked stream evicts no stream.
C28_EvictionOnlyForNewStream ==
    [][(TakesTcpPacket /\ calls'[Len(calls')].victim # None) =>
        LET self == cleanup_expired_connections(tcp_flow, now) IN
        /\ ConnectionKey(calls'[Len(calls')].argument) \notin DOMAIN self.connections
        /\ calls'[Len(calls')].victim \in OldestKeys(self)]_vars

\* the hold-queue is in ascending order of sequence number
Ascending(segments) ==
    \A i \in 1..Len(segments) - 1 : segments[i].seq_num <= segments[i + 1].seq_num

RoutesOtherType ==
    /\ calls' # calls
    /\ calls'[Len(calls')].op = "add_response"
    /\ ~IsResponseType(calls'[Len(calls')].argument)

\* C30: add_response with a message that is neither a Response nor an Error
\* reports a format error, whether or not a request with the message's key
\* is stored, and leaves the stored pairs and the pending queue as they
\* were.
C30_OtherTypeIsFormatError ==
    [][RoutesOtherType =>
        /\ result'[1].status = "err"
        /\ session_manager'.sessions = session_manager.sessions
        /\ session_manager'.pending_responses = session_manager.pending_responses]_vars

\* the stored requests without a response whose deadline has passed
PastDeadline(self, t) ==
    {key \in DOMAIN self.sessions :
        self.sessions[key].response = None /\ self.sessions[key].timeout < t}

\* C31: a Response or Error that arrives after the deadline of the stored
\* request with its key is not attached to that request, and no completed
\* pair is returned for it.
C31_PairedWithinWindow ==
    [][CallAddResponse =>
        \A key \in PastDeadline(session_manager, now) :
            /\ key \in DOMAIN session_manager'.sessions
            /\ session_manager'.sessions[key].response = None
            /\ \/ result'[1].pairs = None
               \/ SessionKey(result'[1].pairs[1].request) # key]_vars

\* C32: a datagram that main recognises and parses as an SD packet only
\* feeds the port learner: it is not processed by the TP, MSI or plain path
\* as well, so the output is as it was and main is still in its loop.
C32_SdOnlyLearnsPorts ==
    [][(TakesFrame /\ SdPacketOf(Head(channel).data) # None) =>
        /\ messages' = messages
        /\ main_pc' = "loop"]_vars

\* the message-type byte with the TP bit (0x20) cleared
WithoutTpBit(value) == IF Bit(value, 5) THEN value - 32 ELSE value

\* C33: the TP bit of the message-type byte does not change the variant: the
\* variant of every message in the output is the variant of its type byte
\* with bit 0x20 cleared.
C33_TpBitKeepsVariant ==
    \A i \in 1..Len(messages) :
        messages[i].header.message_type.variant
            = MessageTypeName(WithoutTpBit(as_u8(messages[i].header.message_type)))

\* the stream's packet that carries the FIN bit on the wire
FinPacket == TcpPacket(StreamPort, BaseSeq, WireFlag("fin") + WireFlag("ack"), <<>>)

\* the decoded packets whose header word has the bit of `flag`
SentWith(flag) ==
    CASE flag = "syn" -> SynPackets
      [] flag = "rst" -> {RstPacket}
      [] flag = "fin" -> {FinPacket}
      [] flag = "ack" -> TcpPackets \ SynPackets

\* C34: every flag of a decoded TCP packet is given by its own bit of the
\* header word: a packet sent with the FIN, SYN, RST or ACK bit reaches the
\* reassembler with that flag set.
C34_FlagsFromOwnBits ==
    \A i \in 1..Len(calls) :
        calls[i].op = "process_tcp_packet" =>
            \A flag \in {"fin", "syn", "rst", "ack"} :
                calls[i].argument \in SentWith(flag) => calls[i].argument.flags[flag]

\* C35: the frame decoder ends with the decoded layers or with an error,
\* never with an abort, whatever the IPv4 total length, the TCP data offset
\* and the SD options length of the buffer are.
C35_DecoderNeverAborts ==
    (result # None /\ result[1].op = "decode") => result[1].status # "panic"

\* C36: the MSI splitter returns the embedded messages or a format error
\* for every container and never aborts, also when an embedded message states
\* a length below 16.
C36_MsiNeverAborts ==
    (result # None /\ result[1].op = "parse_msi_packet") => result[1].status # "panic"

\* C37: the offset of every decoded TP fragment is made of the 30 bits that
\* are not the is_first and is_last flags: it is below 2^30, and a non-first
\* fragment decodes to the same offset with and without the is_last bit.
C37_OffsetWithoutFlags ==
    \A i \in 1..Len(calls) :
        calls[i].op = "process_segment" =>
            LET segment == calls[i].argument IN
            /\ segment.offset < 2 ^ 30
            /\ \A length \in TpLengths, offset \in TpOffsets :
                  segment = FragmentOf(length, FALSE, TRUE, offset) =>
                      segment.offset = FragmentOf(length, FALSE, FALSE, offset).offset

\* C38: no message is in the output twice; in particular a stored request
\* is put there once, also when a second Response or Error with its key
\* follows the first.
C38_EmittedAtMostOnce ==
    \A i, j \in 1..Len(messages) : i # j => messages[i] # messages[j]

\* C39: no admitted request is lost: when the run has ended with the export,
\* the request of every pair the session manager still holds, completed or
\* not, expired or not, is in the exported output.
C39_NoRequestLost ==
    (main_pc = "done" /\ exported # None) =>
        \A key \in DOMAIN session_manager.sessions :
            \E i \in 1..Len(exported[1]) :
                exported[1][i] = session_manager.sessions[key].request

\* C40: whenever the reassembler assembles a message, every stored fragment
\* lies inside the output buffer: offset + fragment length <= total_size, so
\* that the copy does not write outside the buffer.
C40_FragmentsInsideBuffer ==
    [][(/\ calls' # calls
        /\ ~result'[1].segment.is_first
        /\ result'[1].status \in {"some", "panic"}) =>
        LET stored == StoredWith(tp_parser, result'[1].segment) IN
        \A offset \in DOMAIN stored.segments :
            offset + Len(stored.segments[offset]) <= stored.total_size]_vars

=============================================================================
